---- MODULE Spec2Model ----
(***************************************************************************)
(* Model of the recursive planner of                                       *)
(* src/backend/distributed/planner/recursive_planning.c.                   *)
(*                                                                         *)
(* Query structs live in a heap (a sequence; the address of a Query is its *)
(* index).  A range table entry is a value stored in its query's rtable,   *)
(* a pointer to it is the pair (query address, rtable index).  The code    *)
(* rewrites queries in place, and so does the model: a rewrite replaces    *)
(* the record stored at an address or at a range table position.           *)
(*                                                                         *)
(* One top-level call GenerateSubplansForSubqueriesAndCTEs runs as a       *)
(* sequence of steps, one per pass of RecursivelyPlanSubqueriesAndCTEs and *)
(* per descent of RecursivelyPlanSubqueryWalker into a nested query; the   *)
(* activations of RecursivelyPlanSubqueriesAndCTEs form the stack.         *)
(*                                                                         *)
(* The registry of distributed objects of                                  *)
(* src/backend/distributed/metadata/distobject.c (pg_dist_object) is a     *)
(* second state machine, RegistrySpec, over its own variables.             *)
(***************************************************************************)
EXTENDS Integers, Sequences, FiniteSets, TLC

VARIABLES
    heap,                    \* the Query structs, by address
    heap0,                   \* history: the heap when the current top-level call began
    context,                 \* the RecursivePlanningContext of the current top-level call
    stack,                   \* activations of RecursivelyPlanSubqueriesAndCTEs, innermost last
    recursivePlanningDepth,  \* static int recursivePlanningDepth
    depth0,                  \* history: recursivePlanningDepth when the current call began
    status,                  \* "idle", "running", "returned", "failed"
    result,                  \* what the caller of the top-level call received
    lastError,               \* the error the call raised, "none" otherwise
    SubqueryPushdown,        \* GUC citus.subquery_pushdown
    LocalTableJoinPolicy,    \* GUC citus.local_table_join_policy
    hasOuterJoin,            \* joinRestrictionContext->hasOuterJoin
    planIdArgument,          \* the planId argument of the first top-level call
    assertsHold,             \* history: every Assert() evaluated so far held
    calls,                   \* number of top-level calls started
    pgDistObject,            \* the rows of pg_catalog.pg_dist_object: object addresses
    catalog,                 \* the objects the system catalogs hold: <<classId, objectId>>
    udfCall                  \* history: the last call on the registry and how it ended

vars == <<heap, heap0, context, stack, recursivePlanningDepth, depth0, status,
          result, lastError, SubqueryPushdown, LocalTableJoinPolicy, hasOuterJoin,
          planIdArgument, assertsHold, calls, pgDistObject, catalog, udfCall>>

plannerVars == <<heap, heap0, context, stack, recursivePlanningDepth, depth0, status,
                 result, lastError, SubqueryPushdown, LocalTableJoinPolicy, hasOuterJoin,
                 planIdArgument, assertsHold, calls>>

registryVars == <<pgDistObject, catalog, udfCall>>

(***************************************************************************)
(* Bounds of the model.                                                    *)
(***************************************************************************)
\* top-level calls made on one query tree (the second one re-runs the
\* decomposition on the tree the first one left)
MaxCalls == 2

\* largest value recursivePlanningDepth has before the first call
MaxInitialDepth == 1

(***************************************************************************)
(* Values.                                                                 *)
(***************************************************************************)
\* the root query of the statement
RootQuery == 1

\* a null Query pointer
NullQuery == 0

NoResult == [returned |-> FALSE, subPlanList |-> <<>>]

NullSetOperations == [t |-> "null"]

NullHavingQual == [isNull |-> TRUE, sublinks |-> <<>>]

RangeTblRef(i) == [t |-> "ref", rtindex |-> i]

JoinExpr(jointype, larg, rarg) == [t |-> "join", jointype |-> jointype, larg |-> larg, rarg |-> rarg]

FromExpr(fromlist, quals) == [fromlist |-> fromlist, quals |-> quals]

SetOperationStmt(op, larg, rarg) == [t |-> "setop", op |-> op, larg |-> larg, rarg |-> rarg]

TargetEntry(resname, type, resjunk) == [resname |-> resname, type |-> type, resjunk |-> resjunk]

\* makeNode(RangeTblEntry): every field zeroed
EmptyRTE ==
    [rid |-> 0, rtekind |-> "RTE_RELATION", relType |-> "none", relkind |-> "r",
     subquery |-> NullQuery, ctename |-> "", ctelevelsup |-> 0, lateral |-> FALSE,
     funcordinality |-> FALSE, funcname |-> "", resultId |-> <<>>, copyFormat |-> "",
     funccolnames |-> <<>>, funccoltypes |-> <<>>, funcCanPushdown |-> TRUE]

\* makeNode(Query): every field zeroed; the last four fields are the answers of the
\* external oracles about this query
EmptyQuery ==
    [commandType |-> "CMD_SELECT", rtable |-> <<>>, jointree |-> FromExpr(<<>>, <<>>),
     targetList |-> <<>>, targetSublinks |-> <<>>, returningList |-> <<>>,
     havingQual |-> NullHavingQual, cteList |-> <<>>, hasRecursive |-> FALSE,
     setOperations |-> NullSetOperations, refs |-> <<>>,
     canPushdown |-> TRUE, keysEqual |-> TRUE, colocated |-> TRUE, plannerRaises |-> FALSE]

(***************************************************************************)
(* Sequence helpers.                                                       *)
(***************************************************************************)
RECURSIVE Flatten(_)
Flatten(ss) == IF ss = <<>> THEN <<>> ELSE Head(ss) \o Flatten(Tail(ss))

SeqRange(s) == {s[i] : i \in 1..Len(s)}

(***************************************************************************)
(* The tree of queries.                                                    *)
(***************************************************************************)
\* the subqueries of the RTE_SUBQUERY entries of a range table, in range table order
RECURSIVE RangeTableSubqueries(_)
RangeTableSubqueries(rtable) ==
    IF rtable = <<>> THEN <<>>
    ELSE (IF Head(rtable).rtekind = "RTE_SUBQUERY" THEN <<Head(rtable).subquery>> ELSE <<>>)
         \o RangeTableSubqueries(Tail(rtable))

HavingSublinks(query) == IF query.havingQual.isNull THEN <<>> ELSE query.havingQual.sublinks

CteQueries(query) == [i \in 1..Len(query.cteList) |-> query.cteList[i].ctequery]

\* The Query nodes directly inside a query, in the order query_tree_walker
\* (flags 0) reaches them: target list, join tree quals, HAVING, CTE list,
\* range table.
QueryTreeChildren(h, q) ==
    h[q].targetSublinks \o h[q].jointree.quals \o HavingSublinks(h[q])
    \o CteQueries(h[q]) \o RangeTableSubqueries(h[q].rtable)

\* every Query reachable from q, q included
RECURSIVE QueryTreeNodes(_, _)
QueryTreeNodes(h, q) ==
    {q} \cup UNION {QueryTreeNodes(h, c) : c \in SeqRange(QueryTreeChildren(h, q))}

(***************************************************************************)
(* Checks on range table entries (metadata cache and shared planner        *)
(* helpers, outside this unit).                                            *)
(***************************************************************************)
IsCitusTable(relType) == relType \in {"distributed", "reference", "citus_local"}

IsDistributedTableRTE(rte) == rte.rtekind = "RTE_RELATION" /\ rte.relType = "distributed"

IsCitusTableRTE(rte) == rte.rtekind = "RTE_RELATION" /\ IsCitusTable(rte.relType)

IsDistributedOrReferenceTableRTE(rte) ==
    rte.rtekind = "RTE_RELATION" /\ rte.relType \in {"distributed", "reference"}

IsRelationLocalTableOrMatView(relType) ==
    IF ~IsCitusTable(relType) THEN TRUE
    ELSE IF relType = "citus_local" THEN TRUE
    ELSE FALSE

IsLocalTableRteOrMatView(rte) ==
    IF rte.rtekind # "RTE_RELATION" THEN FALSE
    ELSE IF rte.relkind = "v" THEN FALSE
    ELSE IsRelationLocalTableOrMatView(rte.relType)

ContainsReadIntermediateResultFunctionRTE(rte) ==
    rte.rtekind = "RTE_FUNCTION" /\ rte.funcname = "read_intermediate_result"

CheckFunction(check, rte) ==
    CASE check = "IsDistributedTableRTE" -> IsDistributedTableRTE(rte)
      [] check = "IsCitusTableRTE" -> IsCitusTableRTE(rte)
      [] check = "IsDistributedOrReferenceTableRTE" -> IsDistributedOrReferenceTableRTE(rte)
      [] check = "IsLocalTableRteOrMatView" -> IsLocalTableRteOrMatView(rte)
      [] check = "ContainsReadIntermediateResultFunction" ->
             ContainsReadIntermediateResultFunctionRTE(rte)

\* FindNodeMatchingCheckFunction on a Query node: the whole tree below it
FindNodeMatchingCheckFunction(h, q, check) ==
    \E n \in QueryTreeNodes(h, q) :
        \E i \in 1..Len(h[n].rtable) : CheckFunction(check, h[n].rtable[i])

\* FindNodeMatchingCheckFunctionInRangeTableList: the entries of the list and
\* the whole tree below each subquery entry
FindNodeMatchingCheckFunctionInRangeTableList(h, rtable, check) ==
    \E i \in 1..Len(rtable) :
        \/ CheckFunction(check, rtable[i])
        \/ /\ rtable[i].rtekind = "RTE_SUBQUERY"
           /\ FindNodeMatchingCheckFunction(h, rtable[i].subquery, check)

ContainsReadIntermediateResultFunction(h, q) ==
    FindNodeMatchingCheckFunction(h, q, "ContainsReadIntermediateResultFunction")

\* the result ids a query tree reads through read_intermediate_result
ResultIdsRead(h, q) ==
    UNION {{h[n].rtable[i].resultId : i \in 1..Len(h[n].rtable)} :
               n \in QueryTreeNodes(h, q)} \ {<<>>}

(***************************************************************************)
(* ContainsReferencesToOuterQuery.  A query's own expressions are the      *)
(* nodes of query.refs: Var, Aggref, GroupingFunc and PlaceHolderVar       *)
(* nodes with their levelsup and the nodes below them.                     *)
(***************************************************************************)
RefNode(kind, levelsup, args) == [kind |-> kind, levelsup |-> levelsup, args |-> args]

RECURSIVE ContainsReferencesToOuterQueryWalkerExpr(_, _)
ContainsReferencesToOuterQueryWalkerExpr(node, level) ==
    IF node.kind = "Var" THEN node.levelsup > level
    ELSE IF node.kind = "GroupingFunc" THEN node.levelsup > level
    ELSE IF node.kind \in {"Aggref", "PlaceHolderVar"} /\ node.levelsup > level THEN TRUE
    ELSE \E i \in 1..Len(node.args) :
             ContainsReferencesToOuterQueryWalkerExpr(node.args[i], level)

\* query_tree_walker(query, ContainsReferencesToOuterQueryWalker, context, 0)
\* with context->level = level
RECURSIVE ContainsReferencesToOuterQueryWalker(_, _, _)
ContainsReferencesToOuterQueryWalker(h, q, level) ==
    \/ \E i \in 1..Len(h[q].refs) :
           ContainsReferencesToOuterQueryWalkerExpr(h[q].refs[i], level)
    \/ \E c \in SeqRange(QueryTreeChildren(h, q)) :
           ContainsReferencesToOuterQueryWalker(h, c, level + 1)

ContainsReferencesToOuterQuery(h, q) == ContainsReferencesToOuterQueryWalker(h, q, 0)

(***************************************************************************)
(* External collaborators: the single-node optimizer and the pushdown and  *)
(* colocation oracles.  The answers about a query of the statement are     *)
(* fields of its record; a fragment without any relation (one that only    *)
(* reads intermediate results or calls functions) joins no distribution    *)
(* keys, so its keys are equal and it is colocated with every anchor.      *)
(***************************************************************************)
HasRelation(h, q) ==
    \E n \in QueryTreeNodes(h, q) :
        \E i \in 1..Len(h[n].rtable) : h[n].rtable[i].rtekind = "RTE_RELATION"

FunctionsCanPushdown(h, q) ==
    \A n \in QueryTreeNodes(h, q) :
        \A i \in 1..Len(h[n].rtable) :
            h[n].rtable[i].rtekind = "RTE_FUNCTION" => h[n].rtable[i].funcCanPushdown

CanPushdownSubquery(h, q) ==
    IF HasRelation(h, q) THEN h[q].canPushdown ELSE FunctionsCanPushdown(h, q)

AllDistributionKeysInQueryAreEqual(h, q) ==
    IF FindNodeMatchingCheckFunction(h, q, "IsDistributedTableRTE") THEN h[q].keysEqual ELSE TRUE

SubqueryColocated(h, q) ==
    IF FindNodeMatchingCheckFunction(h, q, "IsDistributedTableRTE") THEN h[q].colocated ELSE TRUE

\* whether planner() raises an error on this query
PlannerRaises(h, q) == h[q].plannerRaises

\* planner(): the plan of a query, kept as what the query was when it was planned
planner(h, q, cursorOptions) ==
    [query |-> q, reads |-> ResultIdsRead(h, q), cursorOptions |-> cursorOptions]

CanUseBinaryCopyFormatForTargetList(targetEntryList) ==
    \A i \in 1..Len(targetEntryList) : targetEntryList[i].type \in {"int4", "text"}

(***************************************************************************)
(* GenerateResultId: appendStringInfo(resultId, UINT64_FORMAT "_%u", ...). *)
(* A string is the sequence of its characters.                             *)
(***************************************************************************)
DigitChar(d) ==
    CASE d = 0 -> "0" [] d = 1 -> "1" [] d = 2 -> "2" [] d = 3 -> "3" [] d = 4 -> "4"
      [] d = 5 -> "5" [] d = 6 -> "6" [] d = 7 -> "7" [] d = 8 -> "8" [] d = 9 -> "9"

\* printf's %u / %llu of a non-negative number
RECURSIVE FormatUnsigned(_)
FormatUnsigned(n) ==
    IF n < 10 THEN <<DigitChar(n)>>
    ELSE FormatUnsigned(n \div 10) \o <<DigitChar(n % 10)>>

GenerateResultIdNoSeparator(planId, subPlanId) ==
    FormatUnsigned(planId) \o FormatUnsigned(subPlanId)

GenerateResultId(planId, subPlanId) ==
    FormatUnsigned(planId) \o <<"_">> \o FormatUnsigned(subPlanId)

(***************************************************************************)
(* BuildSubPlanResultQuery / BuildReadIntermediateResultsQuery.            *)
(***************************************************************************)
NotJunk(targetEntry) == ~targetEntry.resjunk

BuildReadIntermediateResultsQueryAliasedByPosition(targetEntryList, columnAliasList, resultId, funcname, useBinaryCopyFormat) ==
    LET columns == SelectSeq(targetEntryList, NotJunk)
        columnAliasCount == Len(columnAliasList)
        targetList ==
            [columnNumber \in 1..Len(columns) |->
                [resname |-> IF columnAliasCount >= columnNumber
                             THEN columnAliasList[columnAliasCount]
                             ELSE columns[columnNumber].resname,
                 type |-> columns[columnNumber].type,
                 resjunk |-> FALSE,
                 resno |-> columnNumber]]
        rangeTableEntry ==
            [EmptyRTE EXCEPT !.rtekind = "RTE_FUNCTION",
                             !.funcname = funcname,
                             !.resultId = resultId,
                             !.copyFormat = IF useBinaryCopyFormat THEN "binary" ELSE "text",
                             !.funccolnames = [n \in 1..Len(columns) |-> columns[n].resname],
                             !.funccoltypes = [n \in 1..Len(columns) |-> columns[n].type]]
    IN [EmptyQuery EXCEPT !.commandType = "CMD_SELECT",
                          !.rtable = <<rangeTableEntry>>,
                          !.jointree = FromExpr(<<RangeTblRef(1)>>, <<>>),
                          !.targetList = targetList]

BuildReadIntermediateResultsQuery(targetEntryList, columnAliasList, resultId, funcname, useBinaryCopyFormat) ==
    LET columns == SelectSeq(targetEntryList, NotJunk)
        columnAliasCount == Len(columnAliasList)
        targetList ==
            [columnNumber \in 1..Len(columns) |->
                [resname |-> IF columnAliasCount >= columnNumber
                             THEN columnAliasList[columnNumber]
                             ELSE columns[columnNumber].resname,
                 type |-> columns[columnNumber].type,
                 resjunk |-> FALSE,
                 resno |-> columnNumber]]
        rangeTableEntry ==
            [EmptyRTE EXCEPT !.rtekind = "RTE_FUNCTION",
                             !.funcname = funcname,
                             !.resultId = resultId,
                             !.copyFormat = IF useBinaryCopyFormat THEN "binary" ELSE "text",
                             !.funccolnames = [n \in 1..Len(columns) |-> columns[n].resname],
                             !.funccoltypes = [n \in 1..Len(columns) |-> columns[n].type]]
    IN [EmptyQuery EXCEPT !.commandType = "CMD_SELECT",
                          !.rtable = <<rangeTableEntry>>,
                          !.jointree = FromExpr(<<RangeTblRef(1)>>, <<>>),
                          !.targetList = targetList]

BuildSubPlanResultQuery(targetEntryList, columnAliasList, resultId) ==
    BuildReadIntermediateResultsQuery(targetEntryList, columnAliasList, resultId,
                                      "read_intermediate_result",
                                      CanUseBinaryCopyFormatForTargetList(targetEntryList))

\* a Query that is a result-read fragment, and the result id it reads
IsResultQuery(query) ==
    /\ Len(query.rtable) = 1
    /\ ContainsReadIntermediateResultFunctionRTE(query.rtable[1])

(***************************************************************************)
(* The state the planner works on: the heap and the planning context,      *)
(* with the error that stopped it ("none": no error).  raised tells an     *)
(* error thrown with ereport(ERROR) from a DeferredErrorMessage returned   *)
(* to the caller; ret is the return value of the last call.                *)
(***************************************************************************)
Machine(h, ctx, asserts) ==
    [heap |-> h, context |-> ctx, err |-> "none", raised |-> FALSE, ret |-> FALSE,
     assertsHold |-> asserts]

DeferredError(m, message) == [m EXCEPT !.err = message, !.raised = FALSE]

RaiseError(m, message) == [m EXCEPT !.err = message, !.raised = TRUE]

\* uint32 subPlanId = list_length(planningContext->subPlanList) + 1
NextSubPlanIdNoIncrement(subPlanList) == Len(subPlanList)

NextSubPlanId(subPlanList) == Len(subPlanList) + 1

CreateDistributedSubPlan(h, subPlanId, subPlanQuery) ==
    LET cursorOptions ==
            IF ContainsReadIntermediateResultFunction(h, subPlanQuery)
            THEN "CURSOR_OPT_FORCE_DISTRIBUTED" ELSE "0"
    IN [subPlanId |-> subPlanId, plan |-> planner(h, subPlanQuery, cursorOptions)]

RecursivelyPlanSubqueryUnchecked(m, subquery) ==
    IF m.err # "none" THEN m
    ELSE IF PlannerRaises(m.heap, subquery) THEN RaiseError(m, "planner")
    ELSE LET subPlanId == NextSubPlanId(m.context.subPlanList)
             subPlan == CreateDistributedSubPlan(m.heap, subPlanId, subquery)
             resultId == GenerateResultId(m.context.planId, subPlanId)
             resultQuery == BuildSubPlanResultQuery(m.heap[subquery].targetList, <<>>, resultId)
         IN [m EXCEPT !.context.subPlanList = Append(@, subPlan),
                      !.heap[subquery] = resultQuery,
                      !.ret = TRUE]

RecursivelyPlanSubquery(m, subquery) ==
    IF m.err # "none" THEN m
    ELSE IF ContainsReferencesToOuterQuery(m.heap, subquery) THEN [m EXCEPT !.ret = FALSE]
    ELSE IF PlannerRaises(m.heap, subquery) THEN RaiseError(m, "planner")
    ELSE LET subPlanId == NextSubPlanId(m.context.subPlanList)
             subPlan == CreateDistributedSubPlan(m.heap, subPlanId, subquery)
             resultId == GenerateResultId(m.context.planId, subPlanId)
             resultQuery == BuildSubPlanResultQuery(m.heap[subquery].targetList, <<>>, resultId)
         IN [m EXCEPT !.context.subPlanList = Append(@, subPlan),
                      !.heap[subquery] = resultQuery,
                      !.ret = TRUE]

(***************************************************************************)
(* RecursivelyPlanCTEs.                                                    *)
(***************************************************************************)
RtePointer(q, i) == [q |-> q, i |-> i]

\* only the range table of the query itself is looked at
CteReferenceListWalkerOfQueryOnly(h, q, level) ==
    LET query == h[q]
    IN Flatten([i \in 1..Len(query.rtable) |->
           IF query.rtable[i].rtekind = "RTE_CTE" /\ query.rtable[i].ctelevelsup = level
           THEN <<RtePointer(q, i)>> ELSE <<>>])

RECURSIVE CteReferenceListWalker(_, _, _)
\* the walker on a Query node, level being context->level after its increment
CteReferenceListWalker(h, q, level) ==
    LET query == h[q]
        inner == query.targetSublinks \o query.jointree.quals \o HavingSublinks(query)
                 \o CteQueries(query)
    IN Flatten([k \in 1..Len(inner) |-> CteReferenceListWalker(h, inner[k], level + 1)])
       \o Flatten([i \in 1..Len(query.rtable) |->
              (IF query.rtable[i].rtekind = "RTE_CTE" /\ query.rtable[i].ctelevelsup = level
               THEN <<RtePointer(q, i)>> ELSE <<>>)
              \o (IF query.rtable[i].rtekind = "RTE_SUBQUERY"
                  THEN CteReferenceListWalker(h, query.rtable[i].subquery, level + 1)
                  ELSE <<>>)])

\* assignment through a RangeTblEntry pointer: the entry keeps its position
SetRangeTableEntryMoved(rtable, i, rte) ==
    [k \in 1..Len(rtable) |->
        IF k < i THEN rtable[k] ELSE IF k < Len(rtable) THEN rtable[k + 1] ELSE rte]

SetRangeTableEntry(rtable, i, rte) == [rtable EXCEPT ![i] = rte]

\* The subquery a rewritten CTE reference gets: the result query itself for the
\* first reference, copyObject(resultQuery) for the others.
CteReferenceSubqueryShared(h, resultQuery, replacedCtesCount) ==
    [heap |-> h, subquery |-> resultQuery]

CteReferenceSubquery(h, resultQuery, replacedCtesCount) ==
    IF replacedCtesCount = 0
    THEN [heap |-> h, subquery |-> resultQuery]
    ELSE [heap |-> Append(h, h[resultQuery]), subquery |-> Len(h) + 1]

RECURSIVE ReplaceCteReferences(_, _, _, _, _)
ReplaceCteReferences(h, cteReferenceList, cteName, resultQuery, replacedCtesCount) ==
    IF cteReferenceList = <<>> THEN [heap |-> h, replacedCtesCount |-> replacedCtesCount]
    ELSE LET ptr == Head(cteReferenceList)
             rangeTableEntry == h[ptr.q].rtable[ptr.i]
         IN IF rangeTableEntry.rtekind # "RTE_CTE"
            THEN ReplaceCteReferences(h, Tail(cteReferenceList), cteName, resultQuery,
                                      replacedCtesCount)
            ELSE IF rangeTableEntry.ctename = cteName
            THEN LET new == CteReferenceSubquery(h, resultQuery, replacedCtesCount)
                     rte == [rangeTableEntry EXCEPT !.rtekind = "RTE_SUBQUERY",
                                                    !.ctename = "",
                                                    !.ctelevelsup = 0,
                                                    !.subquery = new.subquery]
                     h2 == [new.heap EXCEPT ![ptr.q].rtable =
                                SetRangeTableEntry(@, ptr.i, rte)]
                 IN ReplaceCteReferences(h2, Tail(cteReferenceList), cteName, resultQuery,
                                         replacedCtesCount + 1)
            ELSE ReplaceCteReferences(h, Tail(cteReferenceList), cteName, resultQuery,
                                      replacedCtesCount)

\* an unreferenced SELECT CTE is not executed
SkipCteAlways(cte, subquery) == cte.cterefcount = 0

SkipCteNever(cte, subquery) == FALSE

SkipCte(cte, subquery) == cte.cterefcount = 0 /\ subquery.commandType = "CMD_SELECT"

RECURSIVE RecursivelyPlanCTEsLoop(_, _, _, _)
\* the iterations of foreach(cteCell, query->cteList) from the k-th CTE on
RecursivelyPlanCTEsLoop(m, q, cteReferenceList, k) ==
    IF m.err # "none" \/ k > Len(m.heap[q].cteList) THEN m
    ELSE LET cte == m.heap[q].cteList[k]
             subquery == cte.ctequery
         IN IF ContainsReferencesToOuterQuery(m.heap, subquery)
            THEN DeferredError(m, "CTEs that refer to other subqueries are not supported in multi-shard queries")
            ELSE IF SkipCte(cte, m.heap[subquery])
            THEN RecursivelyPlanCTEsLoop(m, q, cteReferenceList, k + 1)
            ELSE IF PlannerRaises(m.heap, subquery) THEN RaiseError(m, "planner")
            ELSE LET subPlanId == NextSubPlanId(m.context.subPlanList)
                     subPlan == CreateDistributedSubPlan(m.heap, subPlanId, subquery)
                     resultId == GenerateResultId(m.context.planId, subPlanId)
                     cteTargetList == IF m.heap[subquery].returningList # <<>>
                                      THEN m.heap[subquery].returningList
                                      ELSE m.heap[subquery].targetList
                     h1 == Append(m.heap,
                                  BuildSubPlanResultQuery(cteTargetList, cte.aliascolnames,
                                                          resultId))
                     resultQuery == Len(h1)
                     replaced == ReplaceCteReferences(h1, cteReferenceList, cte.ctename,
                                                      resultQuery, 0)
                     m2 == [m EXCEPT !.heap = replaced.heap,
                                     !.context.subPlanList = Append(@, subPlan),
                                     !.assertsHold =
                                         @ /\ cte.cterefcount = replaced.replacedCtesCount]
                 IN RecursivelyPlanCTEsLoop(m2, q, cteReferenceList, k + 1)

\* query->cteList = NIL once every CTE was handled
ClearCteList(cteList) == <<>>

RecursivelyPlanCTEsIgnoringRecursive(m, q) ==
    IF m.heap[q].cteList = <<>> THEN m
    ELSE LET cteReferenceList == CteReferenceListWalker(m.heap, q, 0)
             m2 == RecursivelyPlanCTEsLoop(m, q, cteReferenceList, 1)
         IN IF m2.err # "none" THEN m2
            ELSE [m2 EXCEPT !.heap[q].cteList = ClearCteList(@)]

RecursivelyPlanCTEs(m, q) ==
    IF m.heap[q].cteList = <<>> THEN m
    ELSE IF m.heap[q].hasRecursive
    THEN DeferredError(m, "recursive CTEs are only supported when they contain a filter on the distribution column")
    ELSE LET cteReferenceList == CteReferenceListWalker(m.heap, q, 0)
             m2 == RecursivelyPlanCTEsLoop(m, q, cteReferenceList, 1)
         IN IF m2.err # "none" THEN m2
            ELSE [m2 EXCEPT !.heap[q].cteList = ClearCteList(@)]

(***************************************************************************)
(* WrapFunctionsInSubqueries.                                              *)
(***************************************************************************)
ShouldTransformRTE(rangeTableEntry) ==
    IF \/ rangeTableEntry.rtekind # "RTE_FUNCTION"
       \/ rangeTableEntry.lateral
       \/ rangeTableEntry.funcordinality
    THEN FALSE
    ELSE TRUE

\* the heap after TransformFunctionRTE on entry i of query q
TransformFunctionRTE(h, q, i) ==
    LET rangeTblEntry == h[q].rtable[i]
        newRangeTableEntry == rangeTblEntry
        targetList == [n \in 1..Len(rangeTblEntry.funccolnames) |->
                          [resname |-> rangeTblEntry.funccolnames[n],
                           type |-> rangeTblEntry.funccoltypes[n],
                           resjunk |-> FALSE,
                           resno |-> n]]
        subquery == [EmptyQuery EXCEPT !.commandType = "CMD_SELECT",
                                       !.rtable = <<newRangeTableEntry>>,
                                       !.jointree = FromExpr(<<RangeTblRef(1)>>, <<>>),
                                       !.targetList = targetList]
        h1 == Append(h, subquery)
    IN [h1 EXCEPT ![q].rtable =
           SetRangeTableEntry(@, i, [rangeTblEntry EXCEPT !.rtekind = "RTE_SUBQUERY",
                                                          !.subquery = Len(h1)])]

RECURSIVE WrapFunctionsLoop(_, _, _)
WrapFunctionsLoop(h, q, i) ==
    IF i > Len(h[q].rtable) THEN h
    ELSE IF ShouldTransformRTE(h[q].rtable[i])
    THEN WrapFunctionsLoop(TransformFunctionRTE(h, q, i), q, i + 1)
    ELSE WrapFunctionsLoop(h, q, i + 1)

WrapFunctionsInSubqueriesOfAnyLength(h, q) == WrapFunctionsLoop(h, q, 1)

WrapFunctionsInSubqueries(h, q) ==
    IF Len(h[q].rtable) < 2 THEN h ELSE WrapFunctionsLoop(h, q, 1)

(***************************************************************************)
(* Set operations.                                                         *)
(***************************************************************************)
\* the range table indexes at the leaves of a set operation tree, left to right
RECURSIVE SetOperationLeaves(_)
SetOperationLeaves(node) ==
    IF node.t = "setop" THEN SetOperationLeaves(node.larg) \o SetOperationLeaves(node.rarg)
    ELSE IF node.t = "ref" THEN <<node.rtindex>>
    ELSE <<>>

\* "If at least one leaf query in the union is recurring, then all leaf nodes
\* need to be recurring."
DeferErrorIfUnsupportedUnionQuery(h, q) ==
    \E i \in SeqRange(SetOperationLeaves(h[q].setOperations)) :
        ~FindNodeMatchingCheckFunctionInRangeTableList(h, <<h[q].rtable[i]>>,
                                                       "IsDistributedTableRTE")

\* whether the distribution column is in the same place in all sides of the union
SafeToPushdownUnionSubquery(h, q) == h[q].keysEqual

\* context->level == 0: a top-level set operation is never pushed down
IsTopLevelNever(level) == FALSE

IsTopLevel(level) == level = 0

ShouldRecursivelyPlanSetOperation(h, q, ctx) ==
    LET setOperations == h[q].setOperations
    IN IF setOperations.t = "null" THEN FALSE
       ELSE IF IsTopLevel(ctx.level) THEN TRUE
       ELSE IF setOperations.op # "SETOP_UNION" THEN TRUE
       ELSE IF DeferErrorIfUnsupportedUnionQuery(h, q) THEN TRUE
       ELSE IF ~SafeToPushdownUnionSubquery(h, q) THEN TRUE
       ELSE FALSE

RECURSIVE RecursivelyPlanSetOperations(_, _, _)
RecursivelyPlanSetOperations(m, q, node) ==
    IF m.err # "none" THEN m
    ELSE IF node.t = "setop"
    THEN RecursivelyPlanSetOperations(RecursivelyPlanSetOperations(m, q, node.larg),
                                      q, node.rarg)
    ELSE IF node.t = "ref"
    THEN LET rangeTableEntry == m.heap[q].rtable[node.rtindex]
         IN IF /\ rangeTableEntry.rtekind = "RTE_SUBQUERY"
               /\ FindNodeMatchingCheckFunction(m.heap, rangeTableEntry.subquery,
                                                "IsDistributedTableRTE")
            THEN RecursivelyPlanSubquery(m, rangeTableEntry.subquery)
            ELSE m
    ELSE RaiseError(m, "unexpected node type while expecting set operations or range table references")

(***************************************************************************)
(* Sublinks: HAVING, WHERE and SELECT.                                     *)
(***************************************************************************)
\* ExtractSublinkWalker on the WHERE clause: the subselects of its sublinks
SublinkListFromWhere(query) == query.jointree.quals

NodeContainsSubqueryReferencingOuterQuery(h, sublinks) ==
    \E i \in 1..Len(sublinks) : ContainsReferencesToOuterQuery(h, sublinks[i])

\* the Query nodes of an expression are planned when their range table holds a
\* Citus table
HoldsCitusTableUnchecked(h, query) == TRUE

HoldsCitusTable(h, query) ==
    FindNodeMatchingCheckFunctionInRangeTableList(h, h[query].rtable, "IsCitusTableRTE")

RECURSIVE RecursivelyPlanAllSubqueries(_, _)
\* the walker on an expression whose Query nodes are, in order, `queries`
RecursivelyPlanAllSubqueries(m, queries) ==
    IF m.err # "none" \/ queries = <<>> THEN m
    ELSE LET query == Head(queries)
             m2 == IF HoldsCitusTable(m.heap, query)
                   THEN RecursivelyPlanSubquery(m, query)
                   ELSE m
         IN RecursivelyPlanAllSubqueries(m2, Tail(queries))

ShouldRecursivelyPlanSublinksAlways(h, q) == TRUE

ShouldRecursivelyPlanSublinks(h, q) ==
    IF FindNodeMatchingCheckFunctionInRangeTableList(h, h[q].rtable, "IsDistributedTableRTE")
    THEN FALSE
    ELSE TRUE

(***************************************************************************)
(* Subqueries that are not colocated with the anchor.                      *)
(***************************************************************************)
RECURSIVE JoinTreeRangeTableIndexes(_)
\* the range table indexes a join tree node refers to, left to right
JoinTreeRangeTableIndexes(node) ==
    IF node.t = "join"
    THEN JoinTreeRangeTableIndexes(node.larg) \o JoinTreeRangeTableIndexes(node.rarg)
    ELSE <<node.rtindex>>

FromListRangeTableIndexes(fromlist) ==
    Flatten([k \in 1..Len(fromlist) |-> JoinTreeRangeTableIndexes(fromlist[k])])

JoinTreeContainsSubquery(h, q) ==
    \E i \in SeqRange(FromListRangeTableIndexes(h[q].jointree.fromlist)) :
        h[q].rtable[i].rtekind = "RTE_SUBQUERY"

WhereOrHavingClauseContainsSubquery(h, q) ==
    h[q].jointree.quals # <<>> \/ HavingSublinks(h[q]) # <<>>

ContainsSubquery(h, q) ==
    JoinTreeContainsSubquery(h, q) \/ WhereOrHavingClauseContainsSubquery(h, q)

AllDistributionKeysInSubqueryAreEqual(h, subquery) ==
    IF h[subquery].cteList # <<>> THEN FALSE
    ELSE IF ~AllDistributionKeysInQueryAreEqual(h, subquery) THEN FALSE
    ELSE TRUE

\* the keys of the whole query are not asked for
ShouldRecursivelyPlanSubqueryByOwnKeys(h, subquery, ctx) ==
    IF FindNodeMatchingCheckFunctionInRangeTableList(h, h[subquery].rtable,
                                                     "IsLocalTableRteOrMatView")
    THEN TRUE
    ELSE IF CanPushdownSubquery(h, subquery)
    THEN ~AllDistributionKeysInSubqueryAreEqual(h, subquery)
    ELSE TRUE

\* a subquery with a local table is left where it is
ShouldRecursivelyPlanSubqueryLeavingLocal(h, subquery, ctx) ==
    IF FindNodeMatchingCheckFunctionInRangeTableList(h, h[subquery].rtable,
                                                     "IsLocalTableRteOrMatView")
    THEN FALSE
    ELSE IF CanPushdownSubquery(h, subquery)
    THEN ~ctx.allDistributionKeysInQueryAreEqual
         /\ ~AllDistributionKeysInSubqueryAreEqual(h, subquery)
    ELSE TRUE

\* a subquery with a local table falls through the empty branch to "return true"
ShouldRecursivelyPlanSubquery(h, subquery, ctx) ==
    IF FindNodeMatchingCheckFunctionInRangeTableList(h, h[subquery].rtable,
                                                     "IsLocalTableRteOrMatView")
    THEN TRUE
    ELSE IF CanPushdownSubquery(h, subquery)
    THEN IF /\ ~ctx.allDistributionKeysInQueryAreEqual
            /\ ~AllDistributionKeysInSubqueryAreEqual(h, subquery)
         THEN TRUE
         ELSE FALSE
    ELSE TRUE

ShouldRecursivelyPlanNonColocatedSubqueries(h, subquery, ctx) ==
    IF ctx.allDistributionKeysInQueryAreEqual THEN FALSE
    ELSE IF ~ContainsSubquery(h, subquery) THEN FALSE
    ELSE IF FindNodeMatchingCheckFunctionInRangeTableList(h, h[subquery].rtable,
                                                          "IsLocalTableRteOrMatView")
    THEN FALSE
    ELSE IF ~AllDistributionKeysInSubqueryAreEqual(h, subquery) THEN TRUE
    ELSE FALSE

\* CreateColocatedJoinChecker: the anchor is the first range table entry of the
\* join tree that is a distributed table or a subquery on distributed tables;
\* 0 when there is none (anchorRelationRestrictionList == NIL)
AnchorRte(h, q) ==
    LET indexes == FromListRangeTableIndexes(h[q].jointree.fromlist)
        candidates == {k \in 1..Len(indexes) :
                          FindNodeMatchingCheckFunctionInRangeTableList(
                              h, <<h[q].rtable[indexes[k]]>>, "IsDistributedTableRTE")}
    IN IF candidates = {} THEN 0
       ELSE indexes[CHOOSE k \in candidates : \A k2 \in candidates : k <= k2]

\* SubqueryColocated against the checker whose anchor is entry `anchor` of q
SubqueryColocatedWithAnchor(h, q, anchor, subquery) ==
    IF h[q].rtable[anchor].rtekind = "RTE_SUBQUERY" /\ h[q].rtable[anchor].subquery = subquery
    THEN TRUE
    ELSE SubqueryColocated(h, subquery)

RECURSIVE RecursivelyPlanNonColocatedJoinWalker(_, _, _, _)
\* the walker over the range table references `indexes` of the join tree of q
RecursivelyPlanNonColocatedJoinWalker(m, q, anchor, indexes) ==
    IF m.err # "none" \/ indexes = <<>> THEN m
    ELSE LET rte == m.heap[q].rtable[Head(indexes)]
             m2 == IF rte.rtekind # "RTE_SUBQUERY" THEN m
                   ELSE IF ~SubqueryColocatedWithAnchor(m.heap, q, anchor, rte.subquery)
                   THEN RecursivelyPlanSubquery(m, rte.subquery)
                   ELSE m
         IN RecursivelyPlanNonColocatedJoinWalker(m2, q, anchor, Tail(indexes))

RECURSIVE RecursivelyPlanNonColocatedSubqueriesInWhere(_, _, _, _)
RecursivelyPlanNonColocatedSubqueriesInWhere(m, q, anchor, sublinkList) ==
    IF m.err # "none" \/ sublinkList = <<>> THEN m
    ELSE LET subselect == Head(sublinkList)
             m2 == IF subselect = NullQuery THEN m
                   ELSE IF ~SubqueryColocatedWithAnchor(m.heap, q, anchor, subselect)
                   THEN RecursivelyPlanSubquery(m, subselect)
                   ELSE m
         IN RecursivelyPlanNonColocatedSubqueriesInWhere(m2, q, anchor, Tail(sublinkList))

\* as when no anchor could be picked
RecursivelyPlanNonColocatedSubqueriesNoAnchor(m, q) == m

RecursivelyPlanNonColocatedSubqueries(m, q) ==
    LET anchor == AnchorRte(m.heap, q)
    IN IF anchor = 0 THEN m
       ELSE LET m2 == RecursivelyPlanNonColocatedJoinWalker(
                          m, q, anchor, FromListRangeTableIndexes(m.heap[q].jointree.fromlist))
            IN RecursivelyPlanNonColocatedSubqueriesInWhere(
                   m2, q, anchor, SublinkListFromWhere(m2.heap[q]))

(***************************************************************************)
(* ReplaceRTERelationWithRteSubquery.                                      *)
(***************************************************************************)
\* CreateAllTargetListForRelation: the required columns of a relation
RelationTargetList(rte) == <<TargetEntry("a", "int4", FALSE)>>

\* WrapRteRelationIntoSubquery: SELECT <required columns> FROM <relation>
WrapRteRelationIntoSubquery(rangeTableEntry) ==
    [EmptyQuery EXCEPT !.rtable = <<rangeTableEntry>>,
                       !.jointree = FromExpr(<<RangeTblRef(1)>>, <<>>),
                       !.targetList = RelationTargetList(rangeTableEntry)]

\* the outer subquery holds a deep copy of the entry, whose subquery is the
\* Query at address `copy`
CreateOuterSubquery(rangeTableEntry, copy, outerSubqueryTargetList) ==
    [EmptyQuery EXCEPT !.rtable = <<[rangeTableEntry EXCEPT !.subquery = copy]>>,
                       !.jointree = FromExpr(<<RangeTblRef(1)>>, <<>>),
                       !.targetList = outerSubqueryTargetList]

\* lines 1849-1858: after the forced recursive planning of the wrapped relation
ReplaceRTERelationWithOuterSubquery(m, q, i, subquery) ==
    IF m.err # "none" THEN m
    ELSE IF ~m.ret
    THEN RaiseError(m, "unexpected state: query should have been recursively planned")
    ELSE [m EXCEPT !.heap =
             [Append(Append(@, @[subquery]),
                     CreateOuterSubquery(@[q].rtable[i], Len(@) + 1,
                                         RelationTargetList(@[q].rtable[i])))
                 EXCEPT ![q].rtable[i].subquery = Len(m.heap) + 2]]

\* the relation is converted and the outer subquery built without planning
ReplaceRTERelationWithRteSubqueryUnplanned(m, q, i) ==
    IF m.err # "none" THEN m
    ELSE ReplaceRTERelationWithOuterSubquery(
             [m EXCEPT !.heap =
                 [Append(@, WrapRteRelationIntoSubquery(@[q].rtable[i]))
                     EXCEPT ![q].rtable =
                         SetRangeTableEntry(@, i, [@[i] EXCEPT !.rtekind = "RTE_SUBQUERY",
                                                               !.subquery = Len(m.heap) + 1])],
                      !.ret = TRUE],
             q, i, Len(m.heap) + 1)

ReplaceRTERelationWithRteSubquery(m, q, i) ==
    IF m.err # "none" THEN m
    ELSE ReplaceRTERelationWithOuterSubquery(
             RecursivelyPlanSubquery(
                 [m EXCEPT !.heap =
                     [Append(@, WrapRteRelationIntoSubquery(@[q].rtable[i]))
                         EXCEPT ![q].rtable =
                             SetRangeTableEntry(@, i, [@[i] EXCEPT !.rtekind = "RTE_SUBQUERY",
                                                                   !.subquery = Len(m.heap) + 1])]],
                 Len(m.heap) + 1),
             q, i, Len(m.heap) + 1)

(***************************************************************************)
(* Joins of local tables with distributed tables                           *)
(* (local_distributed_join_planner.c decides which side to convert).       *)
(***************************************************************************)
IsRecursivelyPlannableRelation(rte) == rte.rtekind = "RTE_RELATION" /\ rte.relkind # "v"

ContainsLocalTableDistributedTableJoin(h, rangeTableList) ==
    LET containsDistributedTable ==
            \E i \in 1..Len(rangeTableList) :
                FindNodeMatchingCheckFunctionInRangeTableList(
                    h, <<rangeTableList[i]>>, "IsDistributedOrReferenceTableRTE")
        containsLocalTable ==
            \E i \in 1..Len(rangeTableList) :
                /\ ~FindNodeMatchingCheckFunctionInRangeTableList(
                        h, <<rangeTableList[i]>>, "IsDistributedOrReferenceTableRTE")
                /\ IsRecursivelyPlannableRelation(rangeTableList[i])
                /\ IsLocalTableRteOrMatView(rangeTableList[i])
    IN containsLocalTable /\ containsDistributedTable

ShouldConvertLocalTableJoinsToSubqueries(h, rangeTableList, policy) ==
    IF policy = "never" THEN FALSE
    ELSE IF ~ContainsLocalTableDistributedTableJoin(h, rangeTableList) THEN FALSE
    ELSE TRUE

RECURSIVE RecursivelyPlanLocalTableJoins(_, _, _)
\* converts the local tables of the range table, in range table order, while
\* the range table still joins a local table with a distributed one
RecursivelyPlanLocalTableJoins(m, q, policy) ==
    IF m.err # "none" THEN m
    ELSE IF ~ShouldConvertLocalTableJoinsToSubqueries(m.heap, m.heap[q].rtable, policy) THEN m
    ELSE LET rtable == m.heap[q].rtable
             i == CHOOSE i \in 1..Len(rtable) :
                      /\ IsRecursivelyPlannableRelation(rtable[i])
                      /\ IsLocalTableRteOrMatView(rtable[i])
                      /\ \A j \in 1..(i - 1) : ~(/\ IsRecursivelyPlannableRelation(rtable[j])
                                                 /\ IsLocalTableRteOrMatView(rtable[j]))
         IN RecursivelyPlanLocalTableJoins(ReplaceRTERelationWithRteSubquery(m, q, i), q, policy)

(***************************************************************************)
(* Outer joins whose outer side is recurring.                              *)
(***************************************************************************)
ShouldRecursivelyPlanOuterJoins(joinRestrictionHasOuterJoin) == joinRestrictionHasOuterJoin

\* only the entry itself is looked at, not the queries below it
IsRTERefRecurringEntryOnly(h, q, rangeTableRef) ==
    ~IsDistributedTableRTE(h[q].rtable[rangeTableRef.rtindex])

IsRTERefRecurring(h, q, rangeTableRef) ==
    ~FindNodeMatchingCheckFunctionInRangeTableList(
         h, <<h[q].rtable[rangeTableRef.rtindex]>>, "IsDistributedTableRTE")

RECURSIVE RecursivelyPlanDistributedJoinNode(_, _, _)
\* the distributed side of the join is left as it is
RecursivelyPlanDistributedJoinNodeSkipped(m, q, node) == m

\* every relation under the side is planned, the recurring ones too
RecursivelyPlanDistributedJoinNodeEveryRelation(m, q, node) ==
    IF m.err # "none" THEN m
    ELSE IF node.t = "join"
    THEN RecursivelyPlanDistributedJoinNode(
             RecursivelyPlanDistributedJoinNode(m, q, node.larg), q, node.rarg)
    ELSE IF m.heap[q].rtable[node.rtindex].rtekind = "RTE_RELATION"
    THEN ReplaceRTERelationWithRteSubquery(m, q, node.rtindex)
    ELSE IF IsRTERefRecurring(m.heap, q, node) THEN m
    ELSE RecursivelyPlanSubquery(m, m.heap[q].rtable[node.rtindex].subquery)

RecursivelyPlanDistributedJoinNode(m, q, node) ==
    IF m.err # "none" THEN m
    ELSE IF node.t = "join"
    THEN RecursivelyPlanDistributedJoinNode(
             RecursivelyPlanDistributedJoinNode(m, q, node.larg), q, node.rarg)
    ELSE IF node.t # "ref" THEN RaiseError(m, "unexpected join node type")
    ELSE IF IsRTERefRecurring(m.heap, q, node) THEN m
    ELSE LET distributedRte == m.heap[q].rtable[node.rtindex]
         IN IF distributedRte.rtekind = "RTE_RELATION"
            THEN ReplaceRTERelationWithRteSubquery(m, q, node.rtindex)
            ELSE IF distributedRte.rtekind = "RTE_SUBQUERY"
            THEN LET m2 == RecursivelyPlanSubquery(m, distributedRte.subquery)
                 IN IF m2.err # "none" \/ m2.ret THEN m2
                    ELSE [m2 EXCEPT !.assertsHold =
                             @ /\ ContainsReferencesToOuterQuery(m2.heap, distributedRte.subquery)]
            ELSE RaiseError(m, "got unexpected RTE type when recursively planning a join")

RECURSIVE RecursivelyPlanRecurringTupleOuterJoinWalker(_, _, _)
\* returns the machine with ret = whether the node is recurring
RecursivelyPlanRecurringTupleOuterJoinWalker(m, q, node) ==
    IF m.err # "none" THEN m
    ELSE IF node.t = "join"
    THEN LET mL == RecursivelyPlanRecurringTupleOuterJoinWalker(m, q, node.larg)
             leftNodeRecurs == mL.ret
             mR == RecursivelyPlanRecurringTupleOuterJoinWalker(mL, q, node.rarg)
             rightNodeRecurs == mR.ret
         IN IF mR.err # "none" THEN mR
            ELSE CASE node.jointype = "JOIN_LEFT" ->
                      [(IF leftNodeRecurs /\ ~rightNodeRecurs
                        THEN RecursivelyPlanDistributedJoinNode(mR, q, node.rarg)
                        ELSE mR) EXCEPT !.ret = leftNodeRecurs]
                   [] node.jointype = "JOIN_RIGHT" ->
                      [(IF ~leftNodeRecurs /\ rightNodeRecurs
                        THEN RecursivelyPlanDistributedJoinNode(mR, q, node.larg)
                        ELSE mR) EXCEPT !.ret = rightNodeRecurs]
                   [] node.jointype = "JOIN_FULL" ->
                      [(IF leftNodeRecurs /\ ~rightNodeRecurs
                        THEN RecursivelyPlanDistributedJoinNode(mR, q, node.rarg)
                        ELSE IF ~leftNodeRecurs /\ rightNodeRecurs
                        THEN RecursivelyPlanDistributedJoinNode(mR, q, node.larg)
                        ELSE mR) EXCEPT !.ret = leftNodeRecurs \/ rightNodeRecurs]
                   [] node.jointype = "JOIN_INNER" ->
                      [mR EXCEPT !.ret = leftNodeRecurs /\ rightNodeRecurs]
                   [] OTHER ->
                      RaiseError(mR, "got unexpected join type when recursively planning a join")
    ELSE IF node.t = "ref" THEN [m EXCEPT !.ret = IsRTERefRecurring(m.heap, q, node)]
    ELSE RaiseError(m, "got unexpected node type when recursively planning a join")

RECURSIVE RecursivelyPlanRecurringTupleOuterJoinFromExpr(_, _, _)
\* the FromExpr case of the walker: each element of the FROM list in turn
RecursivelyPlanRecurringTupleOuterJoinFromExpr(m, q, k) ==
    IF m.err # "none" \/ k > Len(m.heap[q].jointree.fromlist) THEN m
    ELSE RecursivelyPlanRecurringTupleOuterJoinFromExpr(
             RecursivelyPlanRecurringTupleOuterJoinWalker(m, q, m.heap[q].jointree.fromlist[k]),
             q, k + 1)

(***************************************************************************)
(* RecursivelyPlanSubqueriesAndCTEs, in the three stretches the walker's   *)
(* recursion cuts it into.                                                 *)
(***************************************************************************)
\* lines 281-305: the CTEs, the subquery_pushdown exit, the function wrapping
PlanCTEsAndWrapFunctionsIgnoringPushdown(m, q, subqueryPushdown) ==
    LET m1 == RecursivelyPlanCTEs(m, q)
    IN IF m1.err # "none" THEN m1
       ELSE [m1 EXCEPT !.heap = WrapFunctionsInSubqueries(m1.heap, q), !.ret = FALSE]

PlanCTEsAndWrapFunctions(m, q, subqueryPushdown) ==
    LET m1 == RecursivelyPlanCTEs(m, q)
    IN IF m1.err # "none" THEN m1
       ELSE IF subqueryPushdown THEN [m1 EXCEPT !.ret = TRUE]
       ELSE [m1 EXCEPT !.heap = WrapFunctionsInSubqueries(m1.heap, q), !.ret = FALSE]

\* the sublinks of HAVING are planned whether or not one references the outer query
PlanHavingQualUnchecked(m, q) ==
    IF m.err # "none" \/ m.heap[q].havingQual.isNull THEN m
    ELSE RecursivelyPlanAllSubqueries(m, m.heap[q].havingQual.sublinks)

PlanHavingQual(m, q) ==
    IF m.err # "none" \/ m.heap[q].havingQual.isNull THEN m
    ELSE IF NodeContainsSubqueryReferencingOuterQuery(m.heap, m.heap[q].havingQual.sublinks)
    THEN DeferredError(m, "Subqueries in HAVING cannot refer to outer query")
    ELSE RecursivelyPlanAllSubqueries(m, m.heap[q].havingQual.sublinks)

PlanSublinks(m, q) ==
    IF m.err # "none" \/ ~ShouldRecursivelyPlanSublinks(m.heap, q) THEN m
    ELSE RecursivelyPlanAllSubqueries(
             RecursivelyPlanAllSubqueries(m, m.heap[q].jointree.quals),
             m.heap[q].targetSublinks)

PlanSetOperations(m, q) ==
    IF ShouldRecursivelyPlanSetOperation(m.heap, q, m.context)
    THEN RecursivelyPlanSetOperations(m, q, m.heap[q].setOperations)
    ELSE m

PlanNonColocatedSubqueries(m, q) ==
    IF m.err = "none" /\ ShouldRecursivelyPlanNonColocatedSubqueries(m.heap, q, m.context)
    THEN RecursivelyPlanNonColocatedSubqueries(m, q)
    ELSE m

PlanOuterJoins(m, q, joinRestrictionHasOuterJoin) ==
    IF m.err = "none" /\ ShouldRecursivelyPlanOuterJoins(joinRestrictionHasOuterJoin)
    THEN RecursivelyPlanRecurringTupleOuterJoinFromExpr(m, q, 1)
    ELSE m

\* lines 320-356: the passes between the walk of the nested queries and the
\* outer joins
PlanBeforeOuterJoins(m, q, policy) ==
    RecursivelyPlanLocalTableJoins(
        PlanNonColocatedSubqueries(PlanHavingQual(PlanSetOperations(m, q), q), q),
        q, policy)

\* lines 320-390: everything after the walk of the nested queries
PlanAfterSubqueryWalk(m, q, policy, joinRestrictionHasOuterJoin) ==
    PlanSublinks(
        PlanOuterJoins(PlanBeforeOuterJoins(m, q, policy), q, joinRestrictionHasOuterJoin),
        q)

\* lines 1280-1294: back in the walker after the nested query was handled
PlanSubqueryIfNeeded(m, q) ==
    IF ShouldRecursivelyPlanSubquery(m.heap, q, m.context)
    THEN RecursivelyPlanSubquery(m, q)
    ELSE m

GeneratingSubplans == recursivePlanningDepth > 0

(***************************************************************************)
(* The steps of one top-level call.                                        *)
(***************************************************************************)
Frame(q, pc, kids, i) == [q |-> q, pc |-> pc, kids |-> kids, i |-> i]

Top == stack[Len(stack)]

Now == Machine(heap, context, assertsHold)

\* An error ends the call.  A deferred error that RecursivelyPlanSubqueriesAndCTEs
\* returned for the original query is raised after the counter was decremented
\* (lines 242-246); one returned for a nested query is raised by the walker
\* (line 1284), and ereport(ERROR) unwinds from where it is.
Fails(m) ==
    /\ heap' = m.heap
    /\ context' = m.context
    /\ assertsHold' = m.assertsHold
    /\ stack' = <<>>
    /\ status' = "failed"
    /\ lastError' = m.err
    /\ result' = NoResult
    /\ recursivePlanningDepth' =
           IF ~m.raised /\ Len(stack) = 1
           THEN recursivePlanningDepth - 1
           ELSE recursivePlanningDepth
    /\ UNCHANGED <<heap0, depth0, SubqueryPushdown, LocalTableJoinPolicy, hasOuterJoin,
                   planIdArgument, calls>>
    /\ UNCHANGED registryVars

Continues(m, newStack) ==
    /\ heap' = m.heap
    /\ context' = m.context
    /\ assertsHold' = m.assertsHold
    /\ stack' = newStack
    /\ lastError' = m.err
    /\ UNCHANGED <<heap0, depth0, status, result, recursivePlanningDepth,
                   SubqueryPushdown, LocalTableJoinPolicy, hasOuterJoin, planIdArgument, calls>>
    /\ UNCHANGED registryVars

\* the stretch ended: with an error, or where the stack says
ReturnsIgnoringError(m, newStack) == Continues(m, newStack)

Returns(m, newStack) == IF m.err # "none" THEN Fails(m) ELSE Continues(m, newStack)

\* lines 281-308 ended: with an error, with the subquery_pushdown exit, or with the
\* walk over the nested queries about to start
Walks(m) ==
    IF m.err # "none" THEN Fails(m)
    ELSE IF m.ret THEN Continues(m, [stack EXCEPT ![Len(stack)].pc = "done"])
    ELSE Continues(m, [stack EXCEPT ![Len(stack)] =
                          Frame(Top.q, "walk", QueryTreeChildren(m.heap, Top.q), 1)])

GenerateSubplansForSubqueriesAndCTEs ==
    /\ status \in {"idle", "returned"}
    /\ calls < MaxCalls
    /\ calls' = calls + 1
    /\ recursivePlanningDepth' = recursivePlanningDepth + 1
    /\ depth0' = recursivePlanningDepth
    /\ heap0' = heap
    /\ context' = [level |-> 0, planId |-> planIdArgument + calls, subPlanList |-> <<>>,
                   allDistributionKeysInQueryAreEqual |->
                       AllDistributionKeysInQueryAreEqual(heap, RootQuery)]
    /\ stack' = <<Frame(RootQuery, "begin", <<>>, 1)>>
    /\ status' = "running"
    /\ result' = NoResult
    /\ lastError' = "none"
    /\ UNCHANGED <<heap, SubqueryPushdown, LocalTableJoinPolicy, hasOuterJoin,
                   planIdArgument, assertsHold>>
    /\ UNCHANGED registryVars

RecursivelyPlanSubqueriesAndCTEs ==
    /\ status = "running"
    /\ Top.pc = "begin"
    /\ Walks(PlanCTEsAndWrapFunctions(Now, Top.q, SubqueryPushdown))

\* RecursivelyPlanSubqueryWalker reaches the next nested Query node
WalkerEntersSubquery ==
    /\ status = "running"
    /\ Top.pc = "walk"
    /\ Top.i <= Len(Top.kids)
    /\ Continues([Now EXCEPT !.context.level = @ + 1],
                 Append(stack, Frame(Top.kids[Top.i], "begin", <<>>, 1)))

\* RecursivelyPlanSubqueriesAndCTEs returned NULL for the nested query
WalkerLeavesSubquery ==
    /\ status = "running"
    /\ Len(stack) > 1
    /\ Top.pc = "done"
    /\ Returns(PlanSubqueryIfNeeded([Now EXCEPT !.context.level = @ - 1], Top.q),
               [SubSeq(stack, 1, Len(stack) - 1) EXCEPT ![Len(stack) - 1].i = @ + 1])

AfterSubqueryWalk ==
    /\ status = "running"
    /\ Top.pc = "walk"
    /\ Top.i > Len(Top.kids)
    /\ Returns(PlanAfterSubqueryWalk(Now, Top.q, LocalTableJoinPolicy, hasOuterJoin),
               [stack EXCEPT ![Len(stack)].pc = "done"])

ReturnSubPlanList ==
    /\ status = "running"
    /\ Len(stack) = 1
    /\ Top.pc = "done"
    /\ recursivePlanningDepth' = recursivePlanningDepth - 1
    /\ status' = "returned"
    /\ result' = [returned |-> TRUE, subPlanList |-> context.subPlanList]
    /\ stack' = <<>>
    /\ UNCHANGED <<heap, heap0, context, depth0, lastError, SubqueryPushdown,
                   LocalTableJoinPolicy, hasOuterJoin, planIdArgument, assertsHold, calls>>
    /\ UNCHANGED registryVars

Next ==
    \/ GenerateSubplansForSubqueriesAndCTEs
    \/ RecursivelyPlanSubqueriesAndCTEs
    \/ WalkerEntersSubquery
    \/ WalkerLeavesSubquery
    \/ AfterSubqueryWalk
    \/ ReturnSubPlanList

(***************************************************************************)
(* The statements the planner is called on: the originalQuery argument     *)
(* with the queries below it, as the parser and rewriter leave them        *)
(* (cterefcount counts the references, a Var's levelsup does not exceed    *)
(* the nesting depth of its query, set operation leaves and CTE bodies do  *)
(* not refer to the query that owns them).                                 *)
(***************************************************************************)
Columns == <<TargetEntry("a", "int4", FALSE)>>

RelationRTE(relType) == [EmptyRTE EXCEPT !.rtekind = "RTE_RELATION", !.relType = relType]

SubqueryRTE(subquery) == [EmptyRTE EXCEPT !.rtekind = "RTE_SUBQUERY", !.subquery = subquery]

CteRTE(ctename, ctelevelsup) ==
    [EmptyRTE EXCEPT !.rtekind = "RTE_CTE", !.ctename = ctename, !.ctelevelsup = ctelevelsup]

FunctionRTE(funcname, funcCanPushdown) ==
    [EmptyRTE EXCEPT !.rtekind = "RTE_FUNCTION", !.funcname = funcname,
                     !.funcCanPushdown = funcCanPushdown,
                     !.funccolnames = <<"a">>, !.funccoltypes = <<"int4">>]

CommonTableExpr(ctename, ctequery, cterefcount) ==
    [ctename |-> ctename, ctequery |-> ctequery, cterefcount |-> cterefcount,
     aliascolnames |-> <<>>]

\* the entries of a range table carry their position as their identity
NumberEntries(rtable) == [i \in 1..Len(rtable) |-> [rtable[i] EXCEPT !.rid = i]]

\* SELECT a FROM <every entry of the range table>
SelectQuery(rtable) ==
    [EmptyQuery EXCEPT !.rtable = NumberEntries(rtable),
                       !.jointree = FromExpr([i \in 1..Len(rtable) |-> RangeTblRef(i)], <<>>),
                       !.targetList = Columns]

SubqueryKinds ==
    {"pushdown", "nopushdown", "noncolocated", "keysdiffer", "local", "reference",
     "correlated", "raises", "jsonb"}

\* a leaf subquery of each kind
SubqueryOfKind(kind) ==
    LET distributed == SelectQuery(<<RelationRTE("distributed")>>)
    IN CASE kind = "pushdown" -> distributed
         [] kind = "nopushdown" -> [distributed EXCEPT !.canPushdown = FALSE]
         [] kind = "noncolocated" -> [distributed EXCEPT !.colocated = FALSE]
         [] kind = "keysdiffer" ->
                [SelectQuery(<<RelationRTE("distributed"), RelationRTE("distributed")>>)
                    EXCEPT !.keysEqual = FALSE, !.colocated = FALSE]
         [] kind = "local" -> SelectQuery(<<RelationRTE("local")>>)
         [] kind = "reference" -> SelectQuery(<<RelationRTE("reference")>>)
         [] kind = "correlated" ->
                [distributed EXCEPT !.canPushdown = FALSE,
                                    !.refs = <<RefNode("Var", 1, <<>>)>>]
         [] kind = "correlated_noncolocated" ->
                [distributed EXCEPT !.canPushdown = FALSE, !.colocated = FALSE,
                                    !.refs = <<RefNode("Var", 1, <<>>)>>]
         [] kind = "raises" ->
                [distributed EXCEPT !.canPushdown = FALSE, !.plannerRaises = TRUE]
         [] kind = "jsonb" ->
                [distributed EXCEPT !.canPushdown = FALSE,
                                    !.targetList = <<TargetEntry("a", "int4", FALSE),
                                                     TargetEntry("j", "jsonb", FALSE),
                                                     TargetEntry("ctid", "tid", TRUE)>>]

\* whether a statement whose keys are all equal can hold a subquery of this kind
KeysCanBeEqual(kind) == kind \notin {"keysdiffer", "noncolocated", "correlated_noncolocated"}


(***************************************************************************)
(* pg_dist_object (distobject.c): the registry is the set of the object    *)
(* addresses of its rows.  A function returns the registry it leaves and   *)
(* the error it raised ("none": it returned).                              *)
(***************************************************************************)
ClassIds == {1, 2}

ObjectIds == {1}

ObjectSubIds == {0, 1}

ObjectAddress(classId, objectId, objectSubId) ==
    [classId |-> classId, objectId |-> objectId, objectSubId |-> objectSubId]

ObjectAddresses ==
    {ObjectAddress(c, o, s) : c \in ClassIds, o \in ObjectIds, s \in ObjectSubIds}

NoCall == [op |-> "none", address |-> ObjectAddress(0, 0, 0),
           checkObjectExistence |-> "null", error |-> "none"]

\* how the SPI calls of ExecuteCommandAsSuperuser end
SpiOutcomes == {"SPI_OK", "connect_failed", "execute_failed", "finish_failed"}

\* the calls on the registry ("none": no call yet)
RegistryOperations ==
    {"none", "mark_object_distributed", "MarkObjectDistributed",
     "citus_unmark_object_distributed", "master_unmark_object_distributed"}

RegistryOutcome(registry, error) == [registry |-> registry, error |-> error]

\* is_objectclass_supported(classId): the catalogs that can be searched by oid
is_objectclass_supported(classId) == classId = 1

ObjectExists(cat, address) ==
    IF is_objectclass_supported(address.classId)
    THEN <<address.classId, address.objectId>> \in cat
    ELSE FALSE

IsObjectDistributed(registry, address) == address \in registry

\* the command and the registry it leaves; spiStatus < 0 is "failed"
ExecuteCommandAsSuperuser(registry, command, address, spi) ==
    IF spi = "connect_failed"
    THEN [registry |-> registry, spiStatus |-> "none",
          error |-> "could not connect to SPI manager"]
    ELSE IF spi = "execute_failed"
    THEN [registry |-> registry, spiStatus |-> "failed", error |-> "none"]
    ELSE LET after == IF command = "INSERT" THEN registry \cup {address}
                      ELSE registry \ {address}
         IN IF spi = "finish_failed"
            THEN [registry |-> after, spiStatus |-> "ok",
                  error |-> "could not disconnect from SPI manager"]
            ELSE [registry |-> after, spiStatus |-> "ok", error |-> "none"]

MarkObjectDistributedLocally(registry, distAddress, spi) ==
    LET done == ExecuteCommandAsSuperuser(registry, "INSERT", distAddress, spi)
    IN IF done.error # "none" THEN RegistryOutcome(registry, done.error)
       ELSE IF done.spiStatus = "failed"
       THEN RegistryOutcome(registry, "failed to insert object into citus.pg_dist_object")
       ELSE RegistryOutcome(done.registry, "none")

MarkObjectDistributedWithName(registry, distAddress, useConnectionForLocalQuery, citusLoaded, spi) ==
    IF ~citusLoaded
    THEN RegistryOutcome(registry,
                         "Cannot mark object distributed because Citus has not been loaded.")
    ELSE IF useConnectionForLocalQuery
    THEN RegistryOutcome(registry \cup {distAddress}, "none")
    ELSE MarkObjectDistributedLocally(registry, distAddress, spi)

MarkObjectDistributed(registry, distAddress, citusLoaded, spi) ==
    MarkObjectDistributedWithName(registry, distAddress, FALSE, citusLoaded, spi)

UnmarkObjectDistributed(registry, address, spi) ==
    LET done == ExecuteCommandAsSuperuser(registry, "DELETE", address, spi)
    IN IF done.error # "none" THEN RegistryOutcome(registry, done.error)
       ELSE IF done.spiStatus = "failed"
       THEN RegistryOutcome(registry, "failed to delete object from citus.pg_dist_object")
       ELSE RegistryOutcome(done.registry, "none")

citus_unmark_object_distributed_unchecked(registry, cat, address, checkobjectexistence, spi) ==
    IF ~IsObjectDistributed(registry, address) THEN RegistryOutcome(registry, "none")
    ELSE UnmarkObjectDistributed(registry, address, spi)

citus_unmark_object_distributed(registry, cat, address, checkobjectexistence, spi) ==
    LET checkObjectExistence ==
            IF checkobjectexistence = "null" THEN TRUE ELSE checkobjectexistence = "true"
    IN IF ~IsObjectDistributed(registry, address) THEN RegistryOutcome(registry, "none")
       ELSE IF checkObjectExistence /\ ObjectExists(cat, address)
       THEN RegistryOutcome(registry, "object still exists")
       ELSE UnmarkObjectDistributed(registry, address, spi)

master_unmark_object_distributed(registry, cat, address, checkobjectexistence, spi) ==
    citus_unmark_object_distributed(registry, cat, address, checkobjectexistence, spi)

Statement(queries, subqueryPushdown, policy, outerJoin) ==
    [heap |-> queries, SubqueryPushdown |-> subqueryPushdown,
     LocalTableJoinPolicy |-> policy, hasOuterJoin |-> outerJoin]

\* WITH c1 AS (...) [, c2 AS (...)] SELECT ... FROM dist [, c1] [, c1] [, c2] [, (SELECT FROM c1)]
CteStatements ==
    { LET hasSecond == second # "none"
          secondReferenced == second \in {"reads_c1", "plain"}
          c1 == 2
          c2 == 3
          nestedQuery == IF hasSecond THEN 4 ELSE 3
          refcount1 == references + (IF nested THEN 1 ELSE 0)
                       + (IF second = "reads_c1" THEN 1 ELSE 0)
          root == [SelectQuery(<<RelationRTE("distributed")>>
                               \o [i \in 1..references |-> CteRTE("c1", 0)]
                               \o (IF secondReferenced THEN <<CteRTE("c2", 0)>> ELSE <<>>)
                               \o (IF nested THEN <<SubqueryRTE(nestedQuery)>> ELSE <<>>))
                      EXCEPT !.cteList = <<CommonTableExpr("c1", c1, refcount1)>>
                                 \o (IF hasSecond
                                     THEN <<CommonTableExpr("c2", c2,
                                                IF secondReferenced THEN 1 ELSE 0)>>
                                     ELSE <<>>),
                             !.hasRecursive = recursive]
          body1 == [SelectQuery(<<RelationRTE("distributed")>>)
                       EXCEPT !.commandType = command,
                              !.returningList = IF command = "CMD_SELECT" THEN <<>>
                                                ELSE Columns,
                              !.targetList = IF command = "CMD_SELECT" THEN Columns
                                             ELSE <<>>,
                              !.plannerRaises = (raising = "c1")]
          body2 == [SelectQuery(IF second = "reads_c1" THEN <<CteRTE("c1", 1)>>
                                ELSE <<RelationRTE("distributed")>>)
                       EXCEPT !.plannerRaises = (raising = "c2")]
          nestedBody == SelectQuery(<<CteRTE("c1", 1)>>)
      IN Statement(<<root, body1>> \o (IF hasSecond THEN <<body2>> ELSE <<>>)
                       \o (IF nested THEN <<nestedBody>> ELSE <<>>),
                   pushdown, "never", FALSE) :
      command \in {"CMD_SELECT", "CMD_INSERT"}, references \in 0..2, nested \in BOOLEAN,
      second \in {"none", "reads_c1", "plain", "unreferenced"}, raising \in {"none", "c1", "c2"},
      recursive \in BOOLEAN, pushdown \in BOOLEAN }

\* SELECT ... FROM dist, (WITH c AS (...) SELECT FROM c, dist) s
NestedCteStatements ==
    { LET root == SelectQuery(<<RelationRTE("distributed"), SubqueryRTE(2)>>)
          nested == [SelectQuery((IF referenced THEN <<CteRTE("c", 0)>> ELSE <<>>)
                                 \o <<RelationRTE("distributed")>>)
                        EXCEPT !.cteList = <<CommonTableExpr("c", 3,
                                                             IF referenced THEN 1 ELSE 0)>>,
                               !.hasRecursive = recursive,
                               !.canPushdown = canPushdown]
          body == [SelectQuery(<<RelationRTE("distributed")>>)
                      EXCEPT !.refs = IF correlated THEN <<RefNode("Var", 2, <<>>)>> ELSE <<>>,
                             !.plannerRaises = raises]
      IN Statement(<<root, nested, body>>, FALSE, "never", FALSE) :
      recursive \in BOOLEAN, canPushdown \in BOOLEAN, correlated \in BOOLEAN,
      raises \in BOOLEAN, referenced \in BOOLEAN }

\* SELECT ... FROM <relation>, (<first>) s1 [, (<second>) s2]
FromStatements ==
    { LET hasSecond == second # "none"
          keysEqual == wantKeysEqual /\ KeysCanBeEqual(first) /\ KeysCanBeEqual(second)
          root == [SelectQuery(<<RelationRTE(relType), SubqueryRTE(2)>>
                               \o (IF hasSecond THEN <<SubqueryRTE(3)>> ELSE <<>>))
                      EXCEPT !.keysEqual = keysEqual, !.colocated = keysEqual]
      IN Statement(<<root, SubqueryOfKind(first)>>
                       \o (IF hasSecond THEN <<SubqueryOfKind(second)>> ELSE <<>>),
                   FALSE, policy, FALSE) :
      relType \in {"distributed", "reference", "local"}, first \in SubqueryKinds,
      second \in SubqueryKinds \cup {"none"},
      wantKeysEqual \in BOOLEAN, policy \in {"never", "auto"} }

SublinkKinds ==
    {"pushdown", "nopushdown", "noncolocated", "reference", "correlated",
     "correlated_noncolocated", "raises"}

\* SELECT (<target>) FROM <relation> WHERE x IN (<where>) HAVING y > (<having>)
SublinkStatements ==
    { LET kinds == <<target, where, having>>
          hasHaving == wantHaving \/ having # "none"
          keysEqual == wantKeysEqual /\ KeysCanBeEqual(where)
          present == [i \in 1..3 |-> IF kinds[i] = "none" THEN 0 ELSE 1]
          address == [i \in 1..3 |-> 1 + present[i]
                                       + (IF i > 1 THEN present[1] ELSE 0)
                                       + (IF i > 2 THEN present[2] ELSE 0)]
          sublinks == [i \in 1..3 |-> IF kinds[i] = "none" THEN <<>> ELSE <<address[i]>>]
          base == SelectQuery(<<RelationRTE(relType)>>)
          root == [base EXCEPT !.targetSublinks = sublinks[1],
                               !.jointree = FromExpr(base.jointree.fromlist, sublinks[2]),
                               !.havingQual = IF hasHaving
                                              THEN [isNull |-> FALSE, sublinks |-> sublinks[3]]
                                              ELSE NullHavingQual,
                               !.keysEqual = keysEqual, !.colocated = keysEqual]
      IN Statement(<<root>> \o Flatten([i \in 1..3 |->
                                           IF kinds[i] = "none" THEN <<>>
                                           ELSE <<SubqueryOfKind(kinds[i])>>]),
                   pushdown, "never", FALSE) :
      relType \in {"distributed", "reference"},
      target \in {"none", "pushdown", "correlated"},
      where \in SublinkKinds \cup {"none"},
      having \in {"none", "pushdown", "reference", "correlated", "raises"},
      wantHaving \in BOOLEAN, wantKeysEqual \in BOOLEAN, pushdown \in BOOLEAN }

\* SELECT ... FROM dist, (SELECT ... FROM <relation>, (<inner>) s2 WHERE x IN (<where>)) s1
NestedStatements ==
    { LET hasWhere == where # "none"
          keysEqual == wantKeysEqual /\ KeysCanBeEqual(inner) /\ KeysCanBeEqual(where)
          root == [SelectQuery(<<RelationRTE("distributed"), SubqueryRTE(2)>>)
                      EXCEPT !.keysEqual = keysEqual, !.colocated = keysEqual]
          base == SelectQuery(<<RelationRTE(relType), SubqueryRTE(3)>>)
          outer == [base EXCEPT !.canPushdown = canPushdown,
                                !.keysEqual = keysEqual, !.colocated = keysEqual,
                                !.jointree = FromExpr(base.jointree.fromlist,
                                                      IF hasWhere THEN <<4>> ELSE <<>>)]
          nested == IF inner = "correlated"
                    THEN [SubqueryOfKind(inner) EXCEPT !.refs = <<RefNode("Var", levelsup, <<>>)>>]
                    ELSE SubqueryOfKind(inner)
      IN Statement(<<root, outer, nested>>
                       \o (IF hasWhere THEN <<SubqueryOfKind(where)>> ELSE <<>>),
                   FALSE, "never", FALSE) :
      relType \in {"distributed", "reference"}, canPushdown \in BOOLEAN,
      inner \in SubqueryKinds, where \in {"none", "pushdown", "nopushdown", "noncolocated"},
      levelsup \in 1..2, wantKeysEqual \in BOOLEAN }

SetOperationLeafKinds == {"pushdown", "nopushdown", "reference", "local", "raises", "keysdiffer"}

\* (<left>) UNION|INTERSECT (<right>), at the top level or as a subquery in FROM
SetOperationStatements ==
    { LET leaves == <<[SubqueryOfKind(left) EXCEPT !.refs = <<>>],
                      [SubqueryOfKind(right) EXCEPT !.refs = <<>>]>>
          first == IF nested THEN 3 ELSE 2
          keysEqual == wantKeysEqual /\ KeysCanBeEqual(left) /\ KeysCanBeEqual(right)
          setQuery == [SelectQuery(<<SubqueryRTE(first), SubqueryRTE(first + 1)>>)
                          EXCEPT !.jointree = FromExpr(<<>>, <<>>),
                                 !.setOperations =
                                     SetOperationStmt(op, RangeTblRef(1), RangeTblRef(2)),
                                 !.keysEqual = keysEqual, !.colocated = keysEqual]
          root == [SelectQuery(<<RelationRTE("distributed"), SubqueryRTE(2)>>)
                      EXCEPT !.keysEqual = keysEqual, !.colocated = keysEqual]
      IN Statement((IF nested THEN <<root>> ELSE <<>>) \o <<setQuery>> \o leaves,
                   pushdown, "never", FALSE) :
      op \in {"SETOP_UNION", "SETOP_INTERSECT"}, left \in SetOperationLeafKinds,
      right \in SetOperationLeafKinds, nested \in BOOLEAN,
      wantKeysEqual \in BOOLEAN, pushdown \in BOOLEAN }

JoinSideKinds ==
    {"distributed", "reference", "local", "function", "pushdown", "nopushdown", "correlated"}

JoinSideRTE(kind, subquery) ==
    CASE kind \in {"distributed", "reference", "local"} -> RelationRTE(kind)
      [] kind = "function" -> FunctionRTE("generate_series", FALSE)
      [] OTHER -> SubqueryRTE(subquery)

JoinSideQueries(kind) ==
    IF kind \in {"distributed", "reference", "local", "function"} THEN <<>>
    ELSE <<SubqueryOfKind(kind)>>

\* SELECT ... FROM <left> [LEFT|RIGHT|FULL|INNER] JOIN <right> [INNER JOIN dist]
JoinStatements ==
    { LET leftQueries == JoinSideQueries(left)
          outerJoin == wantOuterJoin /\ jointype # "JOIN_INNER"
          base == SelectQuery(<<JoinSideRTE(left, 2), JoinSideRTE(right, 2 + Len(leftQueries))>>
                              \o (IF third THEN <<RelationRTE("distributed")>> ELSE <<>>))
          rightNode == IF third
                       THEN JoinExpr("JOIN_INNER", RangeTblRef(2), RangeTblRef(3))
                       ELSE RangeTblRef(2)
          root == [base EXCEPT !.jointree =
                                   FromExpr(<<JoinExpr(jointype, RangeTblRef(1), rightNode)>>,
                                            <<>>)]
      IN Statement(<<root>> \o leftQueries \o JoinSideQueries(right),
                   FALSE, policy, outerJoin) :
      left \in JoinSideKinds, right \in JoinSideKinds, third \in BOOLEAN,
      jointype \in {"JOIN_LEFT", "JOIN_RIGHT", "JOIN_FULL", "JOIN_INNER"},
      wantOuterJoin \in BOOLEAN,
      policy \in {"never", "auto"} }

NestedJoinSideKinds == {"distributed", "reference", "pushdown", "correlated"}

\* SELECT ... FROM <left> [LEFT|RIGHT|FULL|INNER] JOIN
\*                 (<right> [LEFT|RIGHT|FULL|INNER] JOIN <third>)
NestedJoinStatements ==
    { LET leftQueries == JoinSideQueries(left)
          base == SelectQuery(<<JoinSideRTE(left, 2), JoinSideRTE(right, 2 + Len(leftQueries)),
                                RelationRTE(third)>>)
          root == [base EXCEPT !.jointree =
                       FromExpr(<<JoinExpr(jointype, RangeTblRef(1),
                                           JoinExpr(nestedJointype, RangeTblRef(2),
                                                    RangeTblRef(3)))>>,
                                <<>>)]
      IN Statement(<<root>> \o leftQueries \o JoinSideQueries(right), FALSE, "never", TRUE) :
      left \in NestedJoinSideKinds, right \in NestedJoinSideKinds,
      third \in {"distributed", "reference"},
      jointype \in {"JOIN_LEFT", "JOIN_RIGHT", "JOIN_FULL", "JOIN_INNER"},
      nestedJointype \in {"JOIN_LEFT", "JOIN_RIGHT", "JOIN_FULL", "JOIN_INNER"} }

\* SELECT ... FROM <left> JOIN <right> ON true, the sides distributed tables or
\* subqueries on them
NonColocatedJoinStatements ==
    { LET leftQueries == JoinSideQueries(left)
          keysEqual == wantKeysEqual /\ KeysCanBeEqual(left) /\ KeysCanBeEqual(right)
          base == SelectQuery(<<JoinSideRTE(left, 2), JoinSideRTE(right, 2 + Len(leftQueries))>>)
          root == [base EXCEPT !.jointree =
                                   FromExpr(<<JoinExpr("JOIN_INNER", RangeTblRef(1),
                                                       RangeTblRef(2))>>, <<>>),
                               !.keysEqual = keysEqual, !.colocated = keysEqual]
      IN Statement(<<root>> \o leftQueries \o JoinSideQueries(right), FALSE, policy, FALSE) :
      left \in {"distributed", "pushdown", "noncolocated"},
      right \in {"distributed", "pushdown", "noncolocated"},
      wantKeysEqual \in BOOLEAN, policy \in {"never", "auto"} }

\* the relations a subquery can be on: a postgres table, a citus local table, a
\* materialized view, a view, a distributed table
LocalRelationKinds ==
    { [relType |-> "local", relkind |-> "r"], [relType |-> "citus_local", relkind |-> "r"],
      [relType |-> "local", relkind |-> "m"], [relType |-> "local", relkind |-> "v"],
      [relType |-> "distributed", relkind |-> "r"] }

\* SELECT ... FROM dist, (SELECT ... FROM <relation> [WHERE <relation>.a = dist.a]) s
LocalSubqueryStatements ==
    { LET root == [SelectQuery(<<RelationRTE("distributed"), SubqueryRTE(2)>>)
                      EXCEPT !.keysEqual = keysEqual, !.colocated = keysEqual]
          relation == [RelationRTE(kind.relType) EXCEPT !.relkind = kind.relkind]
          subquery == [SelectQuery(<<relation>>)
                          EXCEPT !.canPushdown = canPushdown,
                                 !.keysEqual = subqueryKeysEqual,
                                 !.refs = IF correlated THEN <<RefNode("Var", 1, <<>>)>>
                                          ELSE <<>>]
      IN Statement(<<root, subquery>>, FALSE, "never", FALSE) :
      kind \in LocalRelationKinds, canPushdown \in BOOLEAN, correlated \in BOOLEAN,
      keysEqual \in BOOLEAN, subqueryKeysEqual \in BOOLEAN }

HavingSublinkKinds == {"pushdown", "nopushdown", "reference", "correlated", "local", "function"}

HavingSublinkOfKind(kind) ==
    IF kind = "function" THEN SelectQuery(<<FunctionRTE("generate_series", TRUE)>>)
    ELSE SubqueryOfKind(kind)

\* SELECT ... FROM dist GROUP BY ... HAVING x > (<first>) [AND y > (<second>)]
HavingStatements ==
    { LET sublinks == IF second = "none" THEN <<2>> ELSE <<2, 3>>
          root == [SelectQuery(<<RelationRTE("distributed")>>)
                      EXCEPT !.havingQual = [isNull |-> FALSE, sublinks |-> sublinks]]
      IN Statement(<<root, HavingSublinkOfKind(first)>>
                       \o (IF second = "none" THEN <<>> ELSE <<HavingSublinkOfKind(second)>>),
                   pushdown, "never", FALSE) :
      first \in HavingSublinkKinds, second \in HavingSublinkKinds \cup {"none"},
      pushdown \in BOOLEAN }

\* SELECT ... FROM [dist | f(),] [LATERAL] g() [WITH ORDINALITY]
FunctionStatements ==
    { LET function == [FunctionRTE("generate_series", funcCanPushdown)
                          EXCEPT !.lateral = lateral, !.funcordinality = ordinality]
          others == CASE other = "none" -> <<>>
                      [] other = "distributed" -> <<RelationRTE("distributed")>>
                      [] other = "function" -> <<FunctionRTE("now", TRUE)>>
      IN Statement(<<SelectQuery(others \o <<function>>)>>, pushdown, "never", FALSE) :
      other \in {"none", "distributed", "function"}, lateral \in BOOLEAN,
      ordinality \in BOOLEAN, funcCanPushdown \in BOOLEAN, pushdown \in BOOLEAN }

TargetLists ==
    { <<TargetEntry("a", "int4", FALSE)>>,
      <<TargetEntry("a", "int4", FALSE), TargetEntry("j", "jsonb", FALSE)>>,
      <<TargetEntry("a", "int4", FALSE), TargetEntry("b", "text", FALSE)>>,
      <<TargetEntry("a", "int4", FALSE), TargetEntry("k", "jsonb", TRUE),
        TargetEntry("b", "text", FALSE)>>,
      <<TargetEntry("a", "int4", FALSE), TargetEntry("k", "int4", TRUE),
        TargetEntry("b", "text", FALSE)>>,
      <<TargetEntry("ctid", "tid", TRUE), TargetEntry("a", "int4", FALSE),
        TargetEntry("b", "text", FALSE)>> }

ColumnAliasLists == { <<>>, <<"x">>, <<"x", "y">> }

\* WITH c1 [(<aliases>)] AS (SELECT <target list> FROM dist) SELECT ... FROM dist, c1
\* SELECT ... FROM dist, (SELECT <target list> FROM dist) s
TargetListStatement(targetList, aliases, asCte) ==
    LET body == [SelectQuery(<<RelationRTE("distributed")>>)
                    EXCEPT !.targetList = targetList, !.canPushdown = FALSE]
        root == IF asCte
                THEN [SelectQuery(<<RelationRTE("distributed"), CteRTE("c1", 0)>>)
                         EXCEPT !.cteList =
                             <<[CommonTableExpr("c1", 2, 1)
                                   EXCEPT !.aliascolnames = aliases]>>]
                ELSE SelectQuery(<<RelationRTE("distributed"), SubqueryRTE(2)>>)
    IN Statement(<<root, body>>, FALSE, "never", FALSE)

\* a CTE has at most as many column aliases as columns; a subquery has none here
TargetListStatements ==
    { TargetListStatement(t[1], t[2], t[3]) :
        t \in { t \in TargetLists \X ColumnAliasLists \X BOOLEAN :
                  /\ Len(t[2]) <= Len(SelectSeq(t[1], NotJunk))
                  /\ (~t[3] => t[2] = <<>>) } }

ReferenceKinds == {"Var", "Aggref", "GroupingFunc", "PlaceHolderVar"}

\* an expression: a reference node, alone or with one reference node below it
ReferenceExpressions ==
    { RefNode(kind, levelsup, <<>>) : kind \in ReferenceKinds, levelsup \in 0..2 }
    \cup { RefNode(kind, 0, <<RefNode(inner, levelsup, <<>>)>>) :
               kind \in ReferenceKinds \ {"Var"}, inner \in {"Var", "Aggref"},
               levelsup \in 1..2 }

\* SELECT ... FROM dist, (SELECT ... FROM dist, (SELECT <expression> FROM dist) s2) s1
ReferenceStatements ==
    { LET root == SelectQuery(<<RelationRTE("distributed"), SubqueryRTE(2)>>)
          outer == SelectQuery(<<RelationRTE("distributed"), SubqueryRTE(3)>>)
          nested == [SelectQuery(<<RelationRTE("distributed")>>)
                        EXCEPT !.refs = <<expression>>, !.canPushdown = FALSE]
      IN Statement(<<root, outer, nested>>, FALSE, "never", FALSE) :
      expression \in ReferenceExpressions }

Statements ==
    FunctionStatements \cup TargetListStatements \cup ReferenceStatements \cup HavingStatements \cup LocalSubqueryStatements \cup NonColocatedJoinStatements \cup CteStatements \cup NestedCteStatements \cup FromStatements \cup SublinkStatements
    \cup NestedStatements \cup SetOperationStatements \cup JoinStatements
    \cup NestedJoinStatements

\* the plan ids of the model: one digit and two digits
PlanIds == {7, 12}

Init ==
    \E statement \in Statements :
        /\ heap = statement.heap
        /\ heap0 = statement.heap
        /\ SubqueryPushdown = statement.SubqueryPushdown
        /\ LocalTableJoinPolicy = statement.LocalTableJoinPolicy
        /\ hasOuterJoin = statement.hasOuterJoin
        /\ planIdArgument \in PlanIds
        /\ recursivePlanningDepth \in 0..MaxInitialDepth
        /\ depth0 = recursivePlanningDepth
        /\ context = [level |-> 0, planId |-> planIdArgument, subPlanList |-> <<>>,
                      allDistributionKeysInQueryAreEqual |-> TRUE]
        /\ stack = <<>>
        /\ status = "idle"
        /\ result = NoResult
        /\ lastError = "none"
        /\ assertsHold = TRUE
        /\ calls = 0
        /\ pgDistObject = {}
        /\ catalog = {}
        /\ udfCall = NoCall

Spec == Init /\ [][Next]_vars

(***************************************************************************)
(* The registry of distributed objects (distobject.c).                     *)
(***************************************************************************)
RegistryInit ==
    /\ pgDistObject = {}
    /\ catalog \in SUBSET (ClassIds \X ObjectIds)
    /\ udfCall = NoCall
    /\ heap = <<>>
    /\ heap0 = <<>>
    /\ context = [level |-> 0, planId |-> 0, subPlanList |-> <<>>,
                  allDistributionKeysInQueryAreEqual |-> TRUE]
    /\ stack = <<>>
    /\ recursivePlanningDepth = 0
    /\ depth0 = 0
    /\ status = "idle"
    /\ result = NoResult
    /\ lastError = "none"
    /\ SubqueryPushdown = FALSE
    /\ LocalTableJoinPolicy = "never"
    /\ hasOuterJoin = FALSE
    /\ planIdArgument = 0
    /\ assertsHold = TRUE
    /\ calls = 0

\* the call ends: the registry is as the call left it, or as it was when the
\* call raised an error and its transaction was rolled back
RegistryCallEnds(op, address, checkObjectExistence, outcome) ==
    /\ pgDistObject' = IF outcome.error = "none" THEN outcome.registry ELSE pgDistObject
    /\ udfCall' = [op |-> op, address |-> address,
                   checkObjectExistence |-> checkObjectExistence,
                   error |-> outcome.error]
    /\ UNCHANGED catalog
    /\ UNCHANGED plannerVars

mark_object_distributed ==
    \E classId \in ClassIds, objectId \in ObjectIds, citusLoaded \in BOOLEAN :
        /\ udfCall.op \in RegistryOperations
        /\ RegistryCallEnds("mark_object_distributed",
                            ObjectAddress(classId, objectId, 0), "null",
                            MarkObjectDistributedWithName(
                                pgDistObject, ObjectAddress(classId, objectId, 0),
                                TRUE, citusLoaded, "SPI_OK"))

MarkObjectDistributedCalled ==
    \E address \in ObjectAddresses, citusLoaded \in BOOLEAN, spi \in SpiOutcomes :
        /\ udfCall.op \in RegistryOperations
        /\ RegistryCallEnds("MarkObjectDistributed", address, "null",
                            MarkObjectDistributed(pgDistObject, address, citusLoaded, spi))

citus_unmark_object_distributed_called ==
    \E address \in ObjectAddresses, checkobjectexistence \in {"true", "false", "null"},
       spi \in SpiOutcomes :
        /\ udfCall.op \in RegistryOperations
        /\ RegistryCallEnds("citus_unmark_object_distributed", address,
                            checkobjectexistence,
                            citus_unmark_object_distributed(pgDistObject, catalog, address,
                                                            checkobjectexistence, spi))

master_unmark_object_distributed_called ==
    \E address \in ObjectAddresses, checkobjectexistence \in {"true", "false", "null"},
       spi \in SpiOutcomes :
        /\ udfCall.op \in RegistryOperations
        /\ RegistryCallEnds("master_unmark_object_distributed", address,
                            checkobjectexistence,
                            master_unmark_object_distributed(pgDistObject, catalog, address,
                                                             checkobjectexistence, spi))

RegistryNext ==
    \/ mark_object_distributed
    \/ MarkObjectDistributedCalled
    \/ citus_unmark_object_distributed_called
    \/ master_unmark_object_distributed_called

RegistrySpec == RegistryInit /\ [][RegistryNext]_vars

(***************************************************************************)
(* Properties.                                                             *)
(***************************************************************************)
\* the subplans of the current top-level call
SubPlans == context.subPlanList

\* the result ids that occur anywhere in a heap
ResultIdsIn(h) ==
    UNION {{h[q].rtable[i].resultId : i \in 1..Len(h[q].rtable)} : q \in 1..Len(h)} \ {<<>>}

\* the result ids generated by the current top-level call
GeneratedResultIds == ResultIdsIn(heap) \ ResultIdsIn(heap0)

Digits == {"0", "1", "2", "3", "4", "5", "6", "7", "8", "9"}

DigitValue(c) ==
    CASE c = "0" -> 0 [] c = "1" -> 1 [] c = "2" -> 2 [] c = "3" -> 3 [] c = "4" -> 4
      [] c = "5" -> 5 [] c = "6" -> 6 [] c = "7" -> 7 [] c = "8" -> 8 [] c = "9" -> 9

\* a decimal numeral without sign and without leading zeros
IsDecimal(chars) ==
    /\ chars # <<>>
    /\ \A i \in 1..Len(chars) : chars[i] \in Digits
    /\ Len(chars) > 1 => chars[1] # "0"

RECURSIVE DecimalValue(_)
DecimalValue(chars) ==
    IF chars = <<>> THEN 0
    ELSE 10 * DecimalValue(SubSeq(chars, 1, Len(chars) - 1)) + DigitValue(chars[Len(chars)])

\* the positions of the underscores of a result id
Underscores(id) == {k \in 1..Len(id) : id[k] = "_"}

\* id is "<planId>_<subPlanId>" in decimal
IsResultIdOf(id, thePlanId, theSubPlanId) ==
    /\ Cardinality(Underscores(id)) = 1
    /\ LET k == CHOOSE k \in Underscores(id) : TRUE
           left == SubSeq(id, 1, k - 1)
           right == SubSeq(id, k + 1, Len(id))
       IN /\ IsDecimal(left) /\ DecimalValue(left) = thePlanId
          /\ IsDecimal(right) /\ DecimalValue(right) = theSubPlanId

\* C1: within one planning context the subplan at position i of the subplan
\* list has subPlanId = i, whichever of RecursivelyPlanCTEs and
\* RecursivelyPlanSubquery created it: the ids start at 1, increase by one,
\* are not reused and leave no gap.
C1_SubPlanIdsArePositions ==
    /\ \A i \in 1..Len(SubPlans) : SubPlans[i].subPlanId = i
    /\ \A i \in 1..Len(result.subPlanList) : result.subPlanList[i].subPlanId = i

\* a returned list that holds a subplan of a CTE (its body is left as it was)
\* after a subplan of a subquery (overwritten by its result query) or before it
C1_Witness ==
    /\ status = "returned"
    /\ Len(result.subPlanList) >= 2
    /\ \E i, j \in 1..Len(result.subPlanList) :
           /\ IsResultQuery(heap[result.subPlanList[i].plan.query])
           /\ ~IsResultQuery(heap[result.subPlanList[j].plan.query])

\* C2: every result id generated during one top-level call is the decimal
\* plan id, an underscore and the decimal subplan id; the subplans of the
\* call have pairwise different ids, and each step generates ids above the
\* ids generated before it.
C2_ResultIdFormat ==
    /\ \A id \in GeneratedResultIds :
           \E i \in 1..Len(SubPlans) : IsResultIdOf(id, context.planId, i)
    /\ \A i \in 1..Len(SubPlans) :
           Cardinality({id \in GeneratedResultIds : IsResultIdOf(id, context.planId, i)}) = 1

C2_ResultIdOrder ==
    \A new \in ResultIdsIn(heap') \ ResultIdsIn(heap) :
        \A old \in GeneratedResultIds :
            calls' = calls =>
                \E i, j \in 1..Len(context'.subPlanList) :
                    /\ IsResultIdOf(old, context.planId, i)
                    /\ IsResultIdOf(new, context.planId, j)
                    /\ i < j

C2_ResultIds == [](C2_ResultIdFormat) /\ [][C2_ResultIdOrder]_vars

\* two subplans of a call whose plan id has two digits
C2_Witness ==
    /\ context.planId >= 10
    /\ Cardinality(GeneratedResultIds) >= 2
    /\ Len(SubPlans) >= 2

\* the queries d levels below q
RECURSIVE QueryTreeNodesAtDepth(_, _, _)
QueryTreeNodesAtDepth(h, q, d) ==
    IF d = 0 THEN {q}
    ELSE UNION {SeqRange(QueryTreeChildren(h, n)) : n \in QueryTreeNodesAtDepth(h, q, d - 1)}

\* the range table entries below q that name the CTE ctename of q
CteReferencesAtDepth(h, q, ctename, d) ==
    UNION {{RtePointer(n, i) : i \in {i \in 1..Len(h[n].rtable) :
                                         /\ h[n].rtable[i].rtekind = "RTE_CTE"
                                         /\ h[n].rtable[i].ctename = ctename
                                         /\ h[n].rtable[i].ctelevelsup = d}} :
               n \in QueryTreeNodesAtDepth(h, q, d)}

CteReferences(h, q, ctename) ==
    UNION {CteReferencesAtDepth(h, q, ctename, d) : d \in 0..Len(h)}

\* the subquery entries whose subquery is a result-read fragment of result
\* id "<thePlanId>_<theSubPlanId>"
ResultReaders(h, thePlanId, theSubPlanId) ==
    UNION {{RtePointer(n, i) : i \in {i \in 1..Len(h[n].rtable) :
                /\ h[n].rtable[i].rtekind = "RTE_SUBQUERY"
                /\ IsResultQuery(h[h[n].rtable[i].subquery])
                /\ IsResultIdOf(h[h[n].rtable[i].subquery].rtable[1].resultId,
                                thePlanId, theSubPlanId)}} :
               n \in 1..Len(h)}

\* the subplans a step appended for the query at address q
CreatedFor(q) ==
    {i \in (Len(SubPlans) + 1)..Len(context'.subPlanList) :
        context'.subPlanList[i].plan.query = q}

\* a step in which RecursivelyPlanCTEs ran on the query on top of the stack
\* and returned no error
PlansCTEs == status = "running" /\ Top.pc = "begin" /\ status' = "running"

C3_Step ==
    PlansCTEs =>
        \A k \in 1..Len(heap[Top.q].cteList) :
            LET cte == heap[Top.q].cteList[k]
                references == CteReferences(heap, Top.q, cte.ctename)
                created == CreatedFor(cte.ctequery)
            IN cte.cterefcount > 0 =>
                   /\ Cardinality(created) = 1
                   /\ Cardinality(references) = cte.cterefcount
                   /\ \A i \in created :
                          ResultReaders(heap', context.planId, i) = references
                   /\ \A r1, r2 \in references :
                          r1 # r2 => heap'[r1.q].rtable[r1.i].subquery
                                         # heap'[r2.q].rtable[r2.i].subquery

\* C3: when RecursivelyPlanCTEs handles a CTE that is referenced k > 0 times
\* it creates one subplan for it, and the k range table entries that named
\* the CTE at the matching nesting level, and no others, become subquery
\* entries on result-read fragments of that subplan's result id, each entry
\* on a Query object of its own.
C3_CteReferencesReplaced == [][C3_Step]_vars

\* a CTE referenced from two queries: two fragments of one result id, one of
\* them in a nested query
C3_Witness ==
    /\ status = "running"
    /\ \E i \in 1..Len(SubPlans) :
           LET readers == ResultReaders(heap, context.planId, i)
           IN /\ Cardinality(readers) >= 2
              /\ \E r \in readers : r.q # RootQuery
              /\ ~IsResultQuery(heap[SubPlans[i].plan.query])

C4_Skipped(cte) == cte.cterefcount = 0 /\ heap[cte.ctequery].commandType = "CMD_SELECT"

C4_Step ==
    PlansCTEs =>
        LET cteList == heap[Top.q].cteList
        IN /\ \A k \in 1..Len(cteList) :
                  /\ CreatedFor(cteList[k].ctequery) = {} <=> C4_Skipped(cteList[k])
                  /\ ~C4_Skipped(cteList[k]) =>
                         Cardinality(CreatedFor(cteList[k].ctequery)) = 1
                  /\ C4_Skipped(cteList[k]) =>
                         \A i \in 1..Len(context'.subPlanList) :
                             context'.subPlanList[i].plan.query # cteList[k].ctequery
           /\ Len(context'.subPlanList) - Len(SubPlans)
                  = Cardinality({k \in 1..Len(cteList) : ~C4_Skipped(cteList[k])})
           /\ Cardinality(ResultIdsIn(heap') \ ResultIdsIn(heap))
                  = Cardinality({k \in 1..Len(cteList) : ~C4_Skipped(cteList[k])})
           /\ heap'[Top.q].cteList = <<>>

C5_ReadsOnlyEarlierSubPlans ==
    /\ \A i \in 1..Len(SubPlans) :
           \A id \in SubPlans[i].plan.reads \ ResultIdsIn(heap0) :
               \E j \in 1..(i - 1) : IsResultIdOf(id, context.planId, j)
    /\ status = "returned" =>
           \A id \in ResultIdsRead(heap, RootQuery) \ ResultIdsIn(heap0) :
               \E j \in 1..Len(result.subPlanList) : IsResultIdOf(id, context.planId, j)

\* a returned list whose last subplan reads an earlier one, the residual query
\* reading the last
C5_Witness ==
    /\ status = "returned"
    /\ Len(result.subPlanList) >= 2
    /\ result.subPlanList[Len(result.subPlanList)].plan.reads # {}
    /\ \E id \in ResultIdsRead(heap, RootQuery) :
           IsResultIdOf(id, context.planId, Len(result.subPlanList))

\* a query tree that is fully decomposed: every query below the root is a
\* result-read fragment or can be pushed down with its distribution keys
\* proven equal and colocated
FullyDecomposed(h) ==
    \A n \in QueryTreeNodes(h, RootQuery) \ {RootQuery} :
        \/ IsResultQuery(h[n])
        \/ /\ h[n].cteList = <<>>
           /\ ~FindNodeMatchingCheckFunctionInRangeTableList(h, h[n].rtable,
                                                             "IsLocalTableRteOrMatView")
           /\ CanPushdownSubquery(h, n)
           /\ AllDistributionKeysInQueryAreEqual(h, n)
           /\ SubqueryColocated(h, n)

\* C6: no Query object is planned into two subplans of a call (a fragment
\* that was overwritten by its result query is not planned again by a later
\* pass), and a second call on a fully decomposed tree appends no subplan.
C6_PlannedAtMostOnce ==
    /\ \A i, j \in 1..Len(SubPlans) :
           SubPlans[i].plan.query = SubPlans[j].plan.query => i = j
    /\ (calls > 1 /\ FullyDecomposed(heap0)) => SubPlans = <<>>

\* the second call returned on the residual query of a first call that had
\* planned subqueries, and on the way passed fragments the first call left
C6_Witness ==
    /\ calls > 1
    /\ status = "returned"
    /\ FullyDecomposed(heap0)
    /\ Cardinality(ResultIdsRead(heap0, RootQuery)) >= 2
    /\ result.subPlanList = <<>>

\* the queries of the input of the current call that the call has changed
RewrittenQueries == {q \in 1..Len(heap0) : heap[q] # heap0[q]}

\* C7 as claimed: when a top-level call fails, the input query tree is as it
\* was before the call and no subplan list is returned.
C7_FailureRestoresTree ==
    status = "failed" => (RewrittenQueries = {} /\ ~result.returned)

\* C7 as amended: when a top-level call fails, no subplan list is returned to
\* the caller, and a call that returns a list raised no error (the rewrites
\* done before the failure stay in the tree, which is given up with the
\* statement).
C7_FailureReturnsNoList ==
    /\ status = "failed" =>
           /\ ~result.returned
           /\ result.subPlanList = <<>>
           /\ lastError # "none"
    /\ result.returned => lastError = "none"

\* a call that failed after it had created a subplan and rewritten the tree
C7_Witness ==
    /\ status = "failed"
    /\ SubPlans # <<>>
    /\ RewrittenQueries # {}
    /\ ~result.returned

\* C8 as claimed: once a top-level call has ended, by returning or by
\* failing, recursivePlanningDepth is what it was before the call, and while
\* the call runs GeneratingSubplans() is true.
C8_CounterRestored ==
    /\ status \in {"returned", "failed"} => recursivePlanningDepth = depth0
    /\ status = "running" => GeneratingSubplans

\* the entries of the input range table of q that are still in its range
\* table, with the positions they have now
KeepsEntries(q) ==
    /\ Len(heap[q].rtable) = Len(heap0[q].rtable)
    /\ \A i \in 1..Len(heap0[q].rtable) : heap[q].rtable[i].rid = heap0[q].rtable[i].rid

\* C9 as claimed: the range table of every query has the same length before
\* and after decomposition.
C9_EveryRangeTableKeepsLength ==
    \A q \in 1..Len(heap0) : Len(heap[q].rtable) = Len(heap0[q].rtable)

\* the queries the call has overwritten with a result query
Overwritten == {q \in 1..Len(heap0) : IsResultQuery(heap[q]) /\ ~IsResultQuery(heap0[q])}

\* C9 as amended: every query that was not itself overwritten by a result
\* query keeps the length of its range table and every entry at its index;
\* the rewrites of entries (CTE reference, function, relation) replace the
\* entry at its position.
C9_RewritesKeepPositions ==
    \A q \in (1..Len(heap0)) \ Overwritten : KeepsEntries(q)

\* a returned call that rewrote, in a query that stays, an entry that is not
\* the last of its range table
C9_Witness ==
    /\ status = "returned"
    /\ \E q \in (1..Len(heap0)) \ Overwritten :
           \E i \in 1..(Len(heap0[q].rtable) - 1) :
               /\ heap[q].rtable[i].rtekind # heap0[q].rtable[i].rtekind
               /\ heap[q].rtable[i + 1] = heap0[q].rtable[i + 1]

\* the leaves of the set operation of the original query that are still
\* subqueries on distributed tables
DistributedLeaves ==
    {i \in SeqRange(SetOperationLeaves(heap[RootQuery].setOperations)) :
        /\ heap[RootQuery].rtable[i].rtekind = "RTE_SUBQUERY"
        /\ FindNodeMatchingCheckFunction(heap, heap[RootQuery].rtable[i].subquery,
                                         "IsDistributedTableRTE")}

\* C10 as claimed: a call on a query with a top-level set operation returns
\* with no leaf of the set operation a subquery on distributed tables.
C10_TopLevelSetOperationDecomposed ==
    (status = "returned" /\ heap0[RootQuery].setOperations # NullSetOperations) =>
        DistributedLeaves = {}

\* C10 as amended: the same, when citus.subquery_pushdown is off.
C10_TopLevelSetOperationDecomposedUnlessPushdown ==
    (/\ status = "returned"
     /\ heap0[RootQuery].setOperations # NullSetOperations
     /\ ~SubqueryPushdown) =>
        DistributedLeaves = {}

\* a top-level UNION of two subqueries that could be pushed down: both were
\* planned by the set operation pass
C10_Witness ==
    /\ status = "returned"
    /\ calls = 1
    /\ ~SubqueryPushdown
    /\ heap0[RootQuery].setOperations # NullSetOperations
    /\ heap0[RootQuery].setOperations.op = "SETOP_UNION"
    /\ context.allDistributionKeysInQueryAreEqual
    /\ \A i \in 1..2 :
           /\ heap0[heap0[RootQuery].rtable[i].subquery].canPushdown
           /\ IsDistributedTableRTE(heap0[heap0[RootQuery].rtable[i].subquery].rtable[1])
    /\ Len(result.subPlanList) = 2
    /\ DistributedLeaves = {}

\* whether the range table entry i of q touches no distributed table, directly
\* or through the queries below it
LeafRecurring(h, q, i) ==
    LET rte == h[q].rtable[i]
    IN /\ ~(rte.rtekind = "RTE_RELATION" /\ rte.relType = "distributed")
       /\ rte.rtekind = "RTE_SUBQUERY" =>
              \A n \in QueryTreeNodes(h, rte.subquery) :
                  \A j \in 1..Len(h[n].rtable) :
                      ~(h[n].rtable[j].rtekind = "RTE_RELATION"
                        /\ h[n].rtable[j].relType = "distributed")

\* the recurring value of a subtree of a join tree, from the values of its leaves
RECURSIVE NodeRecurring(_, _, _)
NodeRecurring(h, q, node) ==
    IF node.t = "ref" THEN LeafRecurring(h, q, node.rtindex)
    ELSE CASE node.jointype = "JOIN_INNER" ->
                  NodeRecurring(h, q, node.larg) /\ NodeRecurring(h, q, node.rarg)
           [] node.jointype = "JOIN_LEFT" -> NodeRecurring(h, q, node.larg)
           [] node.jointype = "JOIN_RIGHT" -> NodeRecurring(h, q, node.rarg)
           [] node.jointype = "JOIN_FULL" ->
                  NodeRecurring(h, q, node.larg) \/ NodeRecurring(h, q, node.rarg)

\* the join nodes of a subtree, itself included
RECURSIVE JoinNodes(_)
JoinNodes(node) ==
    IF node.t = "ref" THEN {}
    ELSE {node} \cup JoinNodes(node.larg) \cup JoinNodes(node.rarg)

\* the range table indexes under a subtree
RECURSIVE LeafIndexes(_)
LeafIndexes(node) ==
    IF node.t = "ref" THEN {node.rtindex}
    ELSE LeafIndexes(node.larg) \cup LeafIndexes(node.rarg)

JoinNodesOf(h, q) == UNION {JoinNodes(e) : e \in SeqRange(h[q].jointree.fromlist)}

\* a subquery entry whose subquery references the outer scope
ReferencesOuterScope(h, q, i) ==
    /\ h[q].rtable[i].rtekind = "RTE_SUBQUERY"
    /\ ContainsReferencesToOuterQuery(h, h[q].rtable[i].subquery)

\* every leaf under the side is recurring, but for the subqueries that
\* reference the outer scope
SideIsRecurring(h, q, side) ==
    \A i \in LeafIndexes(side) : LeafRecurring(h, q, i) \/ ReferencesOuterScope(h, q, i)

\* the outer-join resolver ran over every query of the call that returned
OuterJoinsResolved == status = "returned" /\ hasOuterJoin /\ ~SubqueryPushdown

\* C11: once the outer-join resolver has finished, no LEFT, RIGHT or FULL join
\* has a recurring side in the row-preserving position with a non-recurring
\* side opposite, but for subqueries that reference the outer scope: every
\* other leaf under the forced side is recurring.
C11_NoRecurringOuterSideOverDistributed ==
    OuterJoinsResolved =>
        \A q \in QueryTreeNodes(heap, RootQuery) :
            \A join \in JoinNodesOf(heap, q) :
                /\ (join.jointype \in {"JOIN_LEFT", "JOIN_FULL"}
                    /\ NodeRecurring(heap, q, join.larg)) =>
                       SideIsRecurring(heap, q, join.rarg)
                /\ (join.jointype \in {"JOIN_RIGHT", "JOIN_FULL"}
                    /\ NodeRecurring(heap, q, join.rarg)) =>
                       SideIsRecurring(heap, q, join.larg)

\* ref LEFT JOIN (dist JOIN dist): both relations of the right side were planned
C11_Witness ==
    /\ OuterJoinsResolved
    /\ calls = 1
    /\ \E join \in JoinNodesOf(heap0, RootQuery) :
           /\ join.jointype = "JOIN_LEFT"
           /\ join.rarg.t = "join"
           /\ NodeRecurring(heap0, RootQuery, join.larg)
           /\ \A i \in LeafIndexes(join.rarg) : ~LeafRecurring(heap0, RootQuery, i)
           /\ \A i \in LeafIndexes(join.rarg) : LeafRecurring(heap, RootQuery, i)
    /\ Len(result.subPlanList) = 2

\* the subtrees of a join tree node, itself and its leaves included
RECURSIVE Subtrees(_)
Subtrees(node) ==
    IF node.t = "ref" THEN {node}
    ELSE {node} \cup Subtrees(node.larg) \cup Subtrees(node.rarg)

\* RecursivelyPlanSubqueriesAndCTEs is about to run its passes after the walk
\* of the nested queries
AtAfterSubqueryWalk ==
    /\ status = "running"
    /\ stack # <<>>
    /\ Top.pc = "walk"
    /\ Top.i > Len(Top.kids)

\* the walker, started on any subtree of the join tree of q, returns the
\* recurring value of that subtree
WalkerReturnsRecurringValue(m, q) ==
    m.err = "none" =>
        \A e \in SeqRange(m.heap[q].jointree.fromlist) :
            \A node \in Subtrees(e) :
                RecursivelyPlanRecurringTupleOuterJoinWalker(m, q, node).err = "none" =>
                    RecursivelyPlanRecurringTupleOuterJoinWalker(m, q, node).ret
                        = NodeRecurring(m.heap, q, node)

\* C12: the value the outer-join resolver returns for a subtree is, for a
\* leaf, whether it touches no distributed table, for an INNER join left AND
\* right, for a LEFT join the left value, for a RIGHT join the right value,
\* for a FULL join left OR right, the values being those of the tree as the
\* resolver found it.
C12_RecurringValue ==
    AtAfterSubqueryWalk =>
        WalkerReturnsRecurringValue(PlanBeforeOuterJoins(Now, Top.q, LocalTableJoinPolicy),
                                    Top.q)

\* dist FULL JOIN (dist RIGHT JOIN ref): the RIGHT join is recurring as its right
\* side is, the FULL join as one of its sides is, and both values made the
\* resolver plan the opposite relation
C12_Witness ==
    /\ OuterJoinsResolved
    /\ calls = 1
    /\ \E join \in JoinNodesOf(heap0, RootQuery) :
           /\ join.jointype = "JOIN_FULL"
           /\ join.larg.t = "ref"
           /\ join.rarg.t = "join"
           /\ join.rarg.jointype = "JOIN_RIGHT"
           /\ ~LeafRecurring(heap0, RootQuery, join.larg.rtindex)
           /\ ~NodeRecurring(heap0, RootQuery, join.rarg.larg)
           /\ NodeRecurring(heap0, RootQuery, join.rarg.rarg)
           /\ RecursivelyPlanRecurringTupleOuterJoinWalker(
                  Machine(heap0, context, TRUE), RootQuery, join.rarg).ret
           /\ RecursivelyPlanRecurringTupleOuterJoinWalker(
                  Machine(heap0, context, TRUE), RootQuery, join).ret
           /\ \A i \in LeafIndexes(join) : LeafRecurring(heap, RootQuery, i)
    /\ Len(result.subPlanList) = 2

\* the entry i of q and the queries below it are in h2 what they are in h1
EntryUntouched(h1, h2, q, i) ==
    /\ h2[q].rtable[i] = h1[q].rtable[i]
    /\ h1[q].rtable[i].rtekind = "RTE_SUBQUERY" =>
           \A n \in QueryTreeNodes(h1, h1[q].rtable[i].subquery) : h2[n] = h1[n]

\* what the walker appends at the join node itself: nothing, when what it
\* leaves is what the walks of the two sides leave
AppendsNothingAtNode(m, q, node) ==
    RecursivelyPlanRecurringTupleOuterJoinWalker(m, q, node).context.subPlanList
        = RecursivelyPlanRecurringTupleOuterJoinWalker(
              RecursivelyPlanRecurringTupleOuterJoinWalker(m, q, node.larg),
              q, node.rarg).context.subPlanList

\* the resolver, run on the query q of machine m, leaves every recurring entry
\* as it is and appends nothing at a join whose sides have the same value
ResolverKeepsRecurringEntries(m, q, m2) ==
    (m.err = "none" /\ m2.err = "none") =>
        /\ \A i \in 1..Len(m.heap[q].rtable) :
               LeafRecurring(m.heap, q, i) => EntryUntouched(m.heap, m2.heap, q, i)
        /\ \A join \in JoinNodesOf(m.heap, q) :
               (NodeRecurring(m.heap, q, join.larg) = NodeRecurring(m.heap, q, join.rarg))
                   => AppendsNothingAtNode(m, q, join)

\* the statement SELECT ... FROM ref LEFT JOIN dist, its outer join seen by the planner
IsRefLeftJoinDist(h) ==
    /\ Len(h[RootQuery].rtable) = 2
    /\ h[RootQuery].rtable[1].rtekind = "RTE_RELATION"
    /\ h[RootQuery].rtable[1].relType = "reference"
    /\ h[RootQuery].rtable[2].rtekind = "RTE_RELATION"
    /\ h[RootQuery].rtable[2].relType = "distributed"
    /\ h[RootQuery].jointree.fromlist
           = <<JoinExpr("JOIN_LEFT", RangeTblRef(1), RangeTblRef(2))>>

\* C13: the outer-join resolver does not touch a recurring range table entry,
\* and appends no subplan at a join whose two sides are both recurring or both
\* non-recurring; for ref LEFT JOIN dist the right side alone is planned, into
\* one subplan, and the left entry is as it was.
C13_RecurringEntriesUntouched ==
    /\ AtAfterSubqueryWalk =>
           ResolverKeepsRecurringEntries(
               PlanBeforeOuterJoins(Now, Top.q, LocalTableJoinPolicy), Top.q,
               PlanOuterJoins(PlanBeforeOuterJoins(Now, Top.q, LocalTableJoinPolicy),
                              Top.q, hasOuterJoin))
    /\ (OuterJoinsResolved /\ IsRefLeftJoinDist(heap0)) =>
           /\ Len(result.subPlanList) = 1
           /\ heap[RootQuery].rtable[1] = heap0[RootQuery].rtable[1]
           /\ heap[RootQuery].rtable[2].rtekind = "RTE_SUBQUERY"
           /\ ResultIdsRead(heap, heap[RootQuery].rtable[2].subquery)
                  = {GenerateResultId(context.planId, 1)}

\* ref LEFT JOIN dist was planned
C13_Witness ==
    /\ OuterJoinsResolved
    /\ IsRefLeftJoinDist(heap0)
    /\ Len(result.subPlanList) = 1
    /\ heap[RootQuery].rtable[1] = heap0[RootQuery].rtable[1]
    /\ heap[RootQuery].rtable[2] # heap0[RootQuery].rtable[2]

\* the statement SELECT ... FROM dist1 JOIN dist2 ON true, the distribution keys
\* not proven equal
IsDistJoinDist(h) ==
    /\ Len(h) = 1
    /\ ~h[RootQuery].keysEqual
    /\ Len(h[RootQuery].rtable) = 2
    /\ \A i \in 1..2 : IsDistributedTableRTE(h[RootQuery].rtable[i])
    /\ h[RootQuery].jointree
           = FromExpr(<<JoinExpr("JOIN_INNER", RangeTblRef(1), RangeTblRef(2))>>, <<>>)

\* SELECT ... FROM (SELECT ... FROM dist1) a JOIN (SELECT ... FROM dist2) b ON true,
\* the keys not proven equal and b not colocated with the anchor
IsSubqueryJoinSubquery(h) ==
    /\ Len(h) = 3
    /\ ~h[RootQuery].keysEqual
    /\ Len(h[RootQuery].rtable) = 2
    /\ \A i \in 1..2 :
           /\ h[RootQuery].rtable[i].rtekind = "RTE_SUBQUERY"
           /\ h[RootQuery].rtable[i].subquery = i + 1
           /\ h[i + 1] = [SubqueryOfKind("pushdown") EXCEPT !.colocated = h[i + 1].colocated]
    /\ ~h[3].colocated
    /\ h[RootQuery].jointree
           = FromExpr(<<JoinExpr("JOIN_INNER", RangeTblRef(1), RangeTblRef(2))>>, <<>>)

AtSubqueryClassification ==
    /\ status = "running"
    /\ Len(stack) > 1
    /\ Top.pc = "done"

HoldsLocalTableOrMatView(h, q) ==
    FindNodeMatchingCheckFunctionInRangeTableList(h, h[q].rtable, "IsLocalTableRteOrMatView")

\* the step left the subquery q where it was and made no subplan
LeftInPlace(q) ==
    /\ heap'[q] = heap[q]
    /\ context'.subPlanList = context.subPlanList

\* the step handed the subquery q to RecursivelyPlanSubquery: one subplan more
\* and a result query in its place, or nothing when q references the outer
\* query, or the error of the planner
HandedToSubplanBuilder(q) ==
    IF ContainsReferencesToOuterQuery(heap, q) THEN LeftInPlace(q)
    ELSE \/ status' = "failed"
         \/ /\ Len(context'.subPlanList) = Len(context.subPlanList) + 1
            /\ context'.subPlanList[Len(context'.subPlanList)].plan.query = q
            /\ IsResultQuery(heap'[q])

C15_LeftInPlaceStep ==
    (AtSubqueryClassification /\ HoldsLocalTableOrMatView(heap, Top.q)) => LeftInPlace(Top.q)

\* C15 as claimed: the classification leaves in place a nested subquery that
\* holds a local table, a citus local table or a materialized view: no subplan
\* replaces it.
C15_LocalSubqueryLeftInPlace == [][C15_LeftInPlaceStep]_vars

C15_PlannedStep ==
    (AtSubqueryClassification /\ HoldsLocalTableOrMatView(heap, Top.q)) =>
        HandedToSubplanBuilder(Top.q)

\* C15 as amended: the classification hands a nested subquery that holds a
\* local table, a citus local table or a materialized view to the subplan
\* builder, without asking whether it can be pushed down: a subplan replaces it
\* unless it references the outer query.
C15_LocalSubqueryPlanned == [][C15_PlannedStep]_vars

\* a subquery on a materialized view that could be pushed down was planned
C15_Witness ==
    /\ status = "returned"
    /\ calls = 1
    /\ Len(heap0) = 2
    /\ heap0[2].rtable[1].relkind = "m"
    /\ heap0[2].canPushdown
    /\ HoldsLocalTableOrMatView(heap0, 2)
    /\ IsResultQuery(heap[2])
    /\ Len(result.subPlanList) = 1
    /\ result.subPlanList[1].plan.query = 2

\* the distribution keys of the subquery are proven equal: never of a subquery
\* that still has its CTE list
OwnKeysProvenEqual(h, q) == h[q].cteList = <<>> /\ AllDistributionKeysInQueryAreEqual(h, q)

C16_Step ==
    (AtSubqueryClassification /\ ~HoldsLocalTableOrMatView(heap, Top.q)) =>
        IF /\ CanPushdownSubquery(heap, Top.q)
           /\ context.allDistributionKeysInQueryAreEqual \/ OwnKeysProvenEqual(heap, Top.q)
        THEN LeftInPlace(Top.q)
        ELSE HandedToSubplanBuilder(Top.q)

C16_CteListMeansKeysNotEqual ==
    \A q \in 1..Len(heap) :
        heap[q].cteList # <<>> => ~AllDistributionKeysInSubqueryAreEqual(heap, q)

\* C16: the classification leaves a nested subquery without local tables and
\* materialized views in place iff it can be pushed down and the keys of the
\* whole query or its own keys are proven equal, and hands it to the subplan
\* builder otherwise; the keys of a subquery that has a CTE list are never
\* taken as equal.
C16_SubqueryClassification == [](C16_CteListMeansKeysNotEqual) /\ [][C16_Step]_vars

\* a subquery on a distributed table stayed, by its own keys, in a query whose
\* keys are not proven equal
C16_Witness ==
    /\ status = "returned"
    /\ calls = 1
    /\ Len(heap0) = 2
    /\ ~context.allDistributionKeysInQueryAreEqual
    /\ IsDistributedTableRTE(heap0[2].rtable[1])
    /\ CanPushdownSubquery(heap0, 2)
    /\ OwnKeysProvenEqual(heap0, 2)
    /\ heap[2] = heap0[2]
    /\ result.subPlanList = <<>>

HavingRejected == "Subqueries in HAVING cannot refer to outer query"

\* the HAVING clause of q holds a sublink whose subquery references the outer scope
HavingReferencesOuterScope(h, q) ==
    \E s \in SeqRange(HavingSublinks(h[q])) : ContainsReferencesToOuterQuery(h, s)

\* C17 as claimed: a query whose HAVING clause holds a sublink that references
\* the outer scope is rejected with "Subqueries in HAVING cannot refer to outer
\* query", and no sublink of its HAVING clause is planned.
C17_HavingRejected ==
    (status \in {"returned", "failed"} /\ calls = 1
     /\ HavingReferencesOuterScope(heap0, RootQuery)) =>
        /\ status = "failed"
        /\ lastError = HavingRejected
        /\ \A s \in SeqRange(HavingSublinks(heap0[RootQuery])) : heap[s] = heap0[s]

C17_Step ==
    (/\ AtAfterSubqueryWalk
     /\ PlanSetOperations(Now, Top.q).err = "none"
     /\ HavingReferencesOuterScope(heap, Top.q)) =>
        /\ status' = "failed"
        /\ lastError' = HavingRejected
        /\ heap' = PlanSetOperations(Now, Top.q).heap
        /\ context'.subPlanList = PlanSetOperations(Now, Top.q).context.subPlanList

\* C17 as amended: when the passes of a query come to its HAVING clause (the
\* subquery_pushdown override off, no earlier pass failed) and the clause holds
\* a sublink that references the outer scope, the query is rejected with
\* "Subqueries in HAVING cannot refer to outer query" and the HAVING pass plans
\* no sublink; what the walk of the nested queries had planned stays planned.
C17_HavingRejectedAtHavingPass == [][C17_Step]_vars

\* HAVING x > (correlated) AND y > (subquery that cannot be pushed down): the
\* walk planned the second sublink, then the query was rejected
C17_Witness ==
    /\ status = "failed"
    /\ lastError = HavingRejected
    /\ Len(HavingSublinks(heap0[RootQuery])) = 2
    /\ ContainsReferencesToOuterQuery(heap0, 2)
    /\ heap[2] = heap0[2]
    /\ IsResultQuery(heap[3])
    /\ ~IsResultQuery(heap0[3])
    /\ Len(SubPlans) = 1

\* the range table of the subquery s, or of a query below it, holds a Citus table
CitusTableIn(h, s) ==
    \E n \in QueryTreeNodes(h, s) :
        \E i \in 1..Len(h[n].rtable) :
            /\ h[n].rtable[i].rtekind = "RTE_RELATION"
            /\ h[n].rtable[i].relType \in {"distributed", "reference", "citus_local"}

\* the passes after the walk are about to run on a query whose HAVING clause has
\* no sublink that references the outer scope, and they do not fail
HavingPassRuns ==
    /\ AtAfterSubqueryWalk
    /\ ~heap[Top.q].havingQual.isNull
    /\ ~HavingReferencesOuterScope(heap, Top.q)
    /\ status' # "failed"

\* the step made a subplan of the query at address s
PlannedInStep(s) ==
    /\ IsResultQuery(heap'[s])
    /\ \E i \in (Len(context.subPlanList) + 1)..Len(context'.subPlanList) :
           context'.subPlanList[i].plan.query = s

C18_EverySublinkStep ==
    HavingPassRuns =>
        \A s \in SeqRange(HavingSublinks(heap[Top.q])) : IsResultQuery(heap'[s])

\* C18 as claimed: after the HAVING pass every sublink of the HAVING clause that
\* does not reference the outer scope is a result-read fragment, whatever
\* relations it holds.
C18_EveryHavingSublinkPlanned == [][C18_EverySublinkStep]_vars

C18_CitusSublinkStep ==
    HavingPassRuns =>
        \A s \in SeqRange(HavingSublinks(heap[Top.q])) :
            IF CitusTableIn(heap, s) THEN PlannedInStep(s) ELSE heap'[s] = heap[s]

\* C18 as amended: after the HAVING pass every sublink of the HAVING clause that
\* does not reference the outer scope and holds a Citus table is a result-read
\* fragment, whether or not it could be pushed down; a sublink that holds no
\* Citus table is left as it is.
C18_HavingSublinkWithCitusTablePlanned == [][C18_CitusSublinkStep]_vars

\* HAVING x > (SELECT ... FROM dist) AND y > (SELECT ... FROM generate_series()):
\* the first sublink was planned, the second is as it was
C18_Witness ==
    /\ status = "returned"
    /\ calls = 1
    /\ Len(HavingSublinks(heap0[RootQuery])) = 2
    /\ CitusTableIn(heap0, 2)
    /\ CanPushdownSubquery(heap0, 2)
    /\ ~CitusTableIn(heap0, 3)
    /\ IsResultQuery(heap[2])
    /\ heap[3] = heap0[3]
    /\ ~IsResultQuery(heap[3])
    /\ Len(result.subPlanList) = 1

\* the subquery s, or a query below it, reads a distributed table
DistributedTableIn(h, s) ==
    \E n \in QueryTreeNodes(h, s) :
        \E i \in 1..Len(h[n].rtable) :
            /\ h[n].rtable[i].rtekind = "RTE_RELATION"
            /\ h[n].rtable[i].relType = "distributed"

\* the range table of q holds a distributed table, in q's FROM clause or in
\* a subquery of it
RangeTableHoldsDistributedTable(h, q) ==
    \E i \in 1..Len(h[q].rtable) :
        \/ /\ h[q].rtable[i].rtekind = "RTE_RELATION"
           /\ h[q].rtable[i].relType = "distributed"
        \/ /\ h[q].rtable[i].rtekind = "RTE_SUBQUERY"
           /\ DistributedTableIn(h, h[q].rtable[i].subquery)

WhereAndSelectSublinks(query) ==
    SeqRange(query.jointree.quals) \cup SeqRange(query.targetSublinks)

\* m is the planner's state when the passes of q reach the sublink pass
SublinkPassForcesEverySublink(m, q) ==
    (m.err = "none" /\ status' # "failed") =>
        IF RangeTableHoldsDistributedTable(m.heap, q)
        THEN /\ heap' = m.heap
             /\ context'.subPlanList = m.context.subPlanList
        ELSE \A s \in WhereAndSelectSublinks(m.heap[q]) : ~DistributedTableIn(heap', s)

C19_EverySublinkStep ==
    AtAfterSubqueryWalk =>
        SublinkPassForcesEverySublink(
            PlanOuterJoins(PlanBeforeOuterJoins(Now, Top.q, LocalTableJoinPolicy),
                           Top.q, hasOuterJoin),
            Top.q)

SublinkPassForcesUncorrelatedSublinks(m, q) ==
    (m.err = "none" /\ status' # "failed") =>
        IF RangeTableHoldsDistributedTable(m.heap, q)
        THEN /\ heap' = m.heap
             /\ context'.subPlanList = m.context.subPlanList
        ELSE \A s \in WhereAndSelectSublinks(m.heap[q]) :
                 IF ContainsReferencesToOuterQuery(m.heap, s)
                 THEN heap'[s] = m.heap[s]
                 ELSE ~DistributedTableIn(heap', s)

C19_UncorrelatedSublinkStep ==
    AtAfterSubqueryWalk =>
        SublinkPassForcesUncorrelatedSublinks(
            PlanOuterJoins(PlanBeforeOuterJoins(Now, Top.q, LocalTableJoinPolicy),
                           Top.q, hasOuterJoin),
            Top.q)

RecursiveCTEsRejected ==
    "recursive CTEs are only supported when they contain a filter on the distribution column"

\* RecursivelyPlanCTEs is about to run on a query with CTEs that is flagged as
\* having recursive CTEs
AtRecursiveCTEs ==
    /\ status = "running"
    /\ stack # <<>>
    /\ Top.pc = "begin"
    /\ heap[Top.q].cteList # <<>>
    /\ heap[Top.q].hasRecursive

\* m2 is what RecursivelyPlanCTEs returns from m
RejectedUntouched(m, m2) ==
    /\ m2.err = RecursiveCTEsRejected
    /\ ~m2.raised
    /\ m2.heap = m.heap
    /\ m2.context = m.context

C20_Step ==
    AtRecursiveCTEs =>
        /\ RejectedUntouched(Now, RecursivelyPlanCTEs(Now, Top.q))
        /\ status' = "failed"
        /\ lastError' = RecursiveCTEsRejected
        /\ heap' = heap
        /\ context'.subPlanList = context.subPlanList

\* C20: RecursivelyPlanCTEs on a query with a non-empty CTE list that is flagged
\* as having recursive CTEs returns a deferred error and changes nothing: the
\* subplan list, every range table entry and the CTE list are as they were.
C20_RecursiveCTEsRejected == [][C20_Step]_vars

\* WITH RECURSIVE c1 AS (...), c2 AS (...) SELECT ... : rejected, nothing planned
C20_Witness ==
    /\ status = "failed"
    /\ lastError = RecursiveCTEsRejected
    /\ calls = 1
    /\ heap0[RootQuery].hasRecursive
    /\ Len(heap0[RootQuery].cteList) = 2
    /\ \E i \in 1..Len(heap0[RootQuery].rtable) : heap0[RootQuery].rtable[i].rtekind = "RTE_CTE"
    /\ heap = heap0
    /\ context.subPlanList = <<>>

\* the reference nodes of an expression: the node and every node below it
RECURSIVE ReferenceNodes(_)
ReferenceNodes(node) ==
    {node} \cup UNION {ReferenceNodes(node.args[i]) : i \in 1..Len(node.args)}

\* some reference inside q, at any depth of nested queries and of nested
\* nodes, points to a level above the level of q
PointsAboveQuery(h, q) ==
    \E d \in 0..Len(h) :
        \E n \in QueryTreeNodesAtDepth(h, q, d) :
            \E i \in 1..Len(h[n].refs) :
                \E node \in ReferenceNodes(h[n].refs[i]) :
                    /\ node.kind \in ReferenceKinds
                    /\ node.levelsup > d

OutputEntries(targetEntryList) ==
    {i \in 1..Len(targetEntryList) : ~targetEntryList[i].resjunk}

\* the position in the target list of the k-th entry that is not junk
OutputEntry(targetEntryList, k) ==
    CHOOSE i \in OutputEntries(targetEntryList) :
        Cardinality({j \in OutputEntries(targetEntryList) : j <= i}) = k

SupportsBinaryTransfer(targetEntry) == CanUseBinaryCopyFormatForTargetList(<<targetEntry>>)

\* the columns of a result-read fragment are those of the target list
FragmentColumnsFor(fragment, targetEntryList, aliases) ==
    /\ Len(fragment.targetList) = Cardinality(OutputEntries(targetEntryList))
    /\ Len(fragment.rtable[1].funccoltypes) = Len(fragment.targetList)
    /\ \A k \in 1..Len(fragment.targetList) :
           LET entry == targetEntryList[OutputEntry(targetEntryList, k)]
           IN /\ fragment.targetList[k].resno = k
              /\ ~fragment.targetList[k].resjunk
              /\ fragment.targetList[k].type = entry.type
              /\ fragment.rtable[1].funccoltypes[k] = entry.type
              /\ fragment.targetList[k].resname =
                     IF Len(aliases) >= k THEN aliases[k] ELSE entry.resname

\* the fragments the current call built to read the result of its i-th subplan
FragmentsOf(i) ==
    {n \in 1..Len(heap) :
        /\ IsResultQuery(heap[n])
        /\ IsResultIdOf(heap[n].rtable[1].resultId, context.planId, i)
        /\ (n <= Len(heap0) => heap0[n] # heap[n])}

\* the target list the i-th subplan's fragment was built for, and its aliases
PlannedTargetList(q) ==
    IF heap0[q].returningList # <<>> THEN heap0[q].returningList ELSE heap0[q].targetList

PlannedAliases(q) ==
    LET ctes == {cte \in UNION {SeqRange(heap0[n].cteList) : n \in 1..Len(heap0)} :
                    cte.ctequery = q}
    IN IF ctes = {} THEN <<>> ELSE (CHOOSE cte \in ctes : TRUE).aliascolnames

\* the subplans of the current call made of a query of the statement
SubPlansOfStatement ==
    {i \in 1..Len(context.subPlanList) : context.subPlanList[i].plan.query <= Len(heap0)}

UnmarkCalled == udfCall'.op = "citus_unmark_object_distributed"

ChecksExistence == udfCall'.checkObjectExistence \in {"true", "null"}

\* the call removes no other entry and adds none; after a call that returned
\* the address is not in the registry
UnmarkRemovesTheEntry ==
    /\ pgDistObject' \subseteq pgDistObject
    /\ pgDistObject \ pgDistObject' \subseteq {udfCall'.address}
    /\ udfCall'.error = "none" => udfCall'.address \notin pgDistObject'

UnmarkThrows ==
    /\ udfCall'.error = "object still exists"
    /\ pgDistObject' = pgDistObject

C23_EveryAddressStep ==
    UnmarkCalled =>
        /\ UnmarkRemovesTheEntry
        /\ (ChecksExistence /\ ObjectExists(catalog, udfCall'.address)) => UnmarkThrows

C23_DistributedAddressStep ==
    UnmarkCalled =>
        /\ UnmarkRemovesTheEntry
        /\ (/\ udfCall'.address \in pgDistObject
            /\ ChecksExistence
            /\ ObjectExists(catalog, udfCall'.address)) => UnmarkThrows
        /\ udfCall'.address \notin pgDistObject =>
               udfCall'.error = "none" /\ pgDistObject' = pgDistObject

CteRefersToOuterQuery ==
    "CTEs that refer to other subqueries are not supported in multi-shard queries"

UnreferencedSelectCte(h, cte) ==
    cte.cterefcount = 0 /\ h[cte.ctequery].commandType = "CMD_SELECT"

\* RecursivelyPlanCTEs is about to run on a query all of whose CTEs are
\* SELECTs without a reference
AtUnreferencedSelectCtes ==
    /\ status = "running"
    /\ stack # <<>>
    /\ Top.pc = "begin"
    /\ heap[Top.q].cteList # <<>>
    /\ ~heap[Top.q].hasRecursive
    /\ \A k \in 1..Len(heap[Top.q].cteList) :
           UnreferencedSelectCte(heap, heap[Top.q].cteList[k])

\* the CTEs are skipped: no error, no subplan, nothing rewritten but the CTE
\* list, which is emptied
CtesSkipped(m, q, m2) ==
    /\ m2.err = "none"
    /\ m2.context.subPlanList = m.context.subPlanList
    /\ m2.heap = [m.heap EXCEPT ![q].cteList = <<>>]

C24_SkippedStep ==
    AtUnreferencedSelectCtes =>
        /\ CtesSkipped(Now, Top.q, RecursivelyPlanCTEs(Now, Top.q))
        /\ status' # "failed"

\* C24 as claimed: a CTE without a reference and with a SELECT body is skipped
\* and never makes planning fail, whatever its body references.
C24_UnreferencedSelectCteSkipped == [][C24_SkippedStep]_vars

C24_ValidatedStep ==
    AtUnreferencedSelectCtes =>
        IF \E k \in 1..Len(heap[Top.q].cteList) :
               ContainsReferencesToOuterQuery(heap, heap[Top.q].cteList[k].ctequery)
        THEN /\ status' = "failed"
             /\ lastError' = CteRefersToOuterQuery
             /\ heap' = heap
             /\ context'.subPlanList = context.subPlanList
        ELSE /\ CtesSkipped(Now, Top.q, RecursivelyPlanCTEs(Now, Top.q))
             /\ status' # "failed"

\* C24 as amended: a CTE without a reference and with a SELECT body is skipped
\* without a failure if its body does not reference the outer scope; the
\* outer-scope validation is applied to every CTE before the skip, so an
\* unreferenced SELECT CTE whose body references the outer scope makes
\* planning fail.
C24_UnreferencedSelectCteValidated == [][C24_ValidatedStep]_vars

\* SELECT ... FROM dist, (WITH c AS (SELECT ... WHERE dist.a = outer.a) SELECT ...
\* FROM dist) s: c has no reference, the statement is rejected
C24_Witness ==
    /\ status = "failed"
    /\ lastError = CteRefersToOuterQuery
    /\ calls = 1
    /\ Len(heap0[2].cteList) = 1
    /\ UnreferencedSelectCte(heap0, heap0[2].cteList[1])
    /\ ContainsReferencesToOuterQuery(heap0, heap0[2].cteList[1].ctequery)
    /\ heap = heap0
    /\ context.subPlanList = <<>>

\* m2 is what RecursivelyPlanSubquery returns from m for the query at address q
SubqueryLeftAsItWas(m, m2) ==
    /\ m2.err = "none"
    /\ m2.ret = FALSE
    /\ m2.heap = m.heap
    /\ m2.context = m.context

SubqueryReplacedByFragment(m, q, m2) ==
    /\ m2.ret = TRUE
    /\ Len(m2.context.subPlanList) = Len(m.context.subPlanList) + 1
    /\ SubSeq(m2.context.subPlanList, 1, Len(m.context.subPlanList)) = m.context.subPlanList
    /\ m2.context.subPlanList[Len(m2.context.subPlanList)].subPlanId
           = Len(m.context.subPlanList) + 1
    /\ m2.context.subPlanList[Len(m2.context.subPlanList)].plan.query = q
    /\ Len(m2.heap) = Len(m.heap)
    /\ \A n \in 1..Len(m.heap) : n # q => m2.heap[n] = m.heap[n]
    /\ IsResultQuery(m2.heap[q])
    /\ IsResultIdOf(m2.heap[q].rtable[1].resultId, m.context.planId,
                    Len(m.context.subPlanList) + 1)
    /\ FragmentColumnsFor(m2.heap[q], m.heap[q].targetList, <<>>)

RecursivelyPlanSubqueryContract(m, q, m2) ==
    IF ContainsReferencesToOuterQuery(m.heap, q)
    THEN SubqueryLeftAsItWas(m, m2)
    ELSE m2.err = "none" => SubqueryReplacedByFragment(m, q, m2)

\* C25: RecursivelyPlanSubquery on a query that references an outer scope
\* returns false and leaves the query and the subplan list as they were; on a
\* query without such a reference it appends one subplan, overwrites the query
\* in place with the fragment that reads the new subplan's result, and
\* returns true.  Checked on every query the walk has finished, the moment
\* the planner decides whether to plan it.
C25_RecursivelyPlanSubquery ==
    (status = "running" /\ stack # <<>> /\ Top.pc = "done") =>
        RecursivelyPlanSubqueryContract(Now, Top.q, RecursivelyPlanSubquery(Now, Top.q))

\* SELECT (correlated sublink) FROM dist WHERE x IN (subquery that cannot be
\* pushed down): the first is as it was, the second was replaced
C25_Witness ==
    /\ status = "returned"
    /\ calls = 1
    /\ Len(heap0[RootQuery].targetSublinks) = 1
    /\ Len(heap0[RootQuery].jointree.quals) = 1
    /\ RangeTableHoldsDistributedTable(heap0, RootQuery)
    /\ ContainsReferencesToOuterQuery(heap0, heap0[RootQuery].targetSublinks[1])
    /\ heap[heap0[RootQuery].targetSublinks[1]] = heap0[heap0[RootQuery].targetSublinks[1]]
    /\ ~ContainsReferencesToOuterQuery(heap0, heap0[RootQuery].jointree.quals[1])
    /\ ~CanPushdownSubquery(heap0, heap0[RootQuery].jointree.quals[1])
    /\ IsResultQuery(heap[heap0[RootQuery].jointree.quals[1]])
    /\ result.subPlanList[1].plan.query = heap0[RootQuery].jointree.quals[1]

\* the state in which the passes of the query on top of the stack reach the
\* pass over the subqueries that are not colocated
BeforeNonColocatedPass == PlanHavingQual(PlanSetOperations(Now, Top.q), Top.q)

\* the subqueries the pass looks at: those of the subquery entries of the join
\* tree and those of the sublinks of the WHERE clause
JoinTreeSubqueries(h, q) ==
    {h[q].rtable[i].subquery :
        i \in {i \in SeqRange(FromListRangeTableIndexes(h[q].jointree.fromlist)) :
                  h[q].rtable[i].rtekind = "RTE_SUBQUERY"}}

SubqueriesOfThePass(h, q) == JoinTreeSubqueries(h, q) \cup SeqRange(SublinkListFromWhere(h[q]))

PlannedBy(m, s, m2) ==
    /\ IsResultQuery(m2.heap[s])
    /\ ~IsResultQuery(m.heap[s])
    /\ \E i \in (Len(m.context.subPlanList) + 1)..Len(m2.context.subPlanList) :
           m2.context.subPlanList[i].plan.query = s

\* m2 is what the pass returns from m; nothing but the subqueries of the pass
\* is touched
PassTouchesSubqueriesOnly(m, q, m2) ==
    /\ m2.heap[q] = m.heap[q]
    /\ Len(m2.heap) = Len(m.heap)
    /\ \A n \in 1..Len(m.heap) :
           n \notin SubqueriesOfThePass(m.heap, q) => m2.heap[n] = m.heap[n]

NonColocatedPassPlansAll(m, q, m2) ==
    (/\ m.err = "none"
     /\ ShouldRecursivelyPlanNonColocatedSubqueries(m.heap, q, m.context)
     /\ m2.err = "none") =>
        IF AnchorRte(m.heap, q) = 0
        THEN m2.heap = m.heap /\ m2.context = m.context
        ELSE /\ PassTouchesSubqueriesOnly(m, q, m2)
             /\ \A s \in SubqueriesOfThePass(m.heap, q) :
                    IF SubqueryColocatedWithAnchor(m.heap, q, AnchorRte(m.heap, q), s)
                    THEN m2.heap[s] = m.heap[s]
                    ELSE PlannedBy(m, s, m2)

NonColocatedPassPlansUncorrelated(m, q, m2) ==
    (/\ m.err = "none"
     /\ ShouldRecursivelyPlanNonColocatedSubqueries(m.heap, q, m.context)
     /\ m2.err = "none") =>
        IF AnchorRte(m.heap, q) = 0
        THEN m2.heap = m.heap /\ m2.context = m.context
        ELSE /\ PassTouchesSubqueriesOnly(m, q, m2)
             /\ \A s \in SubqueriesOfThePass(m.heap, q) :
                    IF \/ SubqueryColocatedWithAnchor(m.heap, q, AnchorRte(m.heap, q), s)
                       \/ ContainsReferencesToOuterQuery(m.heap, s)
                    THEN m2.heap[s] = m.heap[s]
                    ELSE PlannedBy(m, s, m2)

ReturnedUnderPushdown == status = "returned" /\ SubqueryPushdown

\* the range table entries the call rewrote
RewrittenEntries ==
    {r \in [q : 1..Len(heap0), i : 1..4] :
        /\ r.i <= Len(heap[r.q].rtable)
        /\ r.i <= Len(heap0[r.q].rtable)
        /\ heap[r.q].rtable[r.i] # heap0[r.q].rtable[r.i]}

\* the CTEs of the top-level query that are not skipped have a subplan and
\* there is no other subplan
OnlyTopLevelCteSubPlans ==
    /\ \A i \in 1..Len(result.subPlanList) :
           result.subPlanList[i].plan.query \in SeqRange(CteQueries(heap0[RootQuery]))
    /\ \A k \in 1..Len(heap0[RootQuery].cteList) :
           ~UnreferencedSelectCte(heap0, heap0[RootQuery].cteList[k]) =>
               \E i \in 1..Len(result.subPlanList) :
                   result.subPlanList[i].plan.query = heap0[RootQuery].cteList[k].ctequery

\* no query of the statement differs from what it was but in the range table
\* entries that named a CTE of the top-level query and in the CTE list of
\* the top-level query
OnlyCteReferencesRewritten ==
    /\ \A n \in 1..Len(heap0) :
           /\ Len(heap[n].rtable) = Len(heap0[n].rtable)
           /\ heap[n] = [heap0[n] EXCEPT !.rtable = heap[n].rtable,
                                         !.cteList = heap[n].cteList]
           /\ n # RootQuery => heap[n].cteList = heap0[n].cteList
    /\ \A r \in RewrittenEntries :
           /\ heap0[r.q].rtable[r.i].rtekind = "RTE_CTE"
           /\ \E k \in 1..Len(heap0[RootQuery].cteList) :
                  heap0[RootQuery].cteList[k].ctename = heap0[r.q].rtable[r.i].ctename
           /\ heap[r.q].rtable[r.i].rtekind = "RTE_SUBQUERY"
           /\ IsResultQuery(heap[heap[r.q].rtable[r.i].subquery])

\* C27: with the subquery_pushdown override on the planner materializes the CTEs
\* of the top-level query and skips everything after that: the subplans
\* returned are those of the CTEs of the top-level query, and no range table
\* entry is rewritten but the references to these CTEs.
C27_PushdownPlansCtesOnly ==
    ReturnedUnderPushdown => OnlyTopLevelCteSubPlans /\ OnlyCteReferencesRewritten

\* WITH c1 AS (...) SELECT ... FROM dist, c1, (SELECT ... FROM c1) s with the
\* override on: one subplan, the reference in s reads its result
C27_Witness ==
    /\ ReturnedUnderPushdown
    /\ calls = 1
    /\ Len(result.subPlanList) >= 1
    /\ \E r \in RewrittenEntries : r.q # RootQuery
    /\ \E r \in RewrittenEntries : r.q = RootQuery
    /\ heap[RootQuery].cteList = <<>>

\* entry i of query q of heap h is a table function that is neither LATERAL
\* nor WITH ORDINALITY, in a range table of two entries or more
FunctionToWrap(h, q, i) ==
    /\ Len(h[q].rtable) >= 2
    /\ h[q].rtable[i].rtekind = "RTE_FUNCTION"
    /\ ~h[q].rtable[i].lateral
    /\ ~h[q].rtable[i].funcordinality

\* entry i of query q of h2 is entry i of h wrapped in a subquery over it alone
WrappedInSubquery(h, q, i, h2) ==
    LET rangeTableEntry == h2[q].rtable[i]
    IN /\ rangeTableEntry.rtekind = "RTE_SUBQUERY"
       /\ rangeTableEntry.subquery \in (Len(h) + 1)..Len(h2)
       /\ h2[rangeTableEntry.subquery].commandType = "CMD_SELECT"
       /\ h2[rangeTableEntry.subquery].rtable = <<h[q].rtable[i]>>

\* h2 is h with exactly the functions to wrap of query q wrapped
WrapsExactlyTheFunctions(h, q, h2) ==
    /\ Len(h2) >= Len(h)
    /\ \A n \in 1..Len(h) : n # q => h2[n] = h[n]
    /\ h2[q] = [h[q] EXCEPT !.rtable = h2[q].rtable]
    /\ Len(h2[q].rtable) = Len(h[q].rtable)
    /\ \A i \in 1..Len(h[q].rtable) :
           IF FunctionToWrap(h, q, i)
           THEN WrappedInSubquery(h, q, i, h2)
           ELSE h2[q].rtable[i] = h[q].rtable[i]
    /\ Len(h2) - Len(h) = Cardinality({i \in 1..Len(h[q].rtable) : FunctionToWrap(h, q, i)})

\* wrapping again, in the query or in a generated wrapper, changes nothing
WrapsNothingFurther(h, q, h2) ==
    /\ WrapFunctionsInSubqueries(h2, q) = h2
    /\ \A n \in (Len(h) + 1)..Len(h2) : WrapFunctionsInSubqueries(h2, n) = h2

\* C28: WrapFunctionsInSubqueries wraps an entry in a subquery over it alone
\* iff the range table of the query has two entries or more and the entry is
\* a table function neither LATERAL nor WITH ORDINALITY; the other entries
\* stay as they were, and a second application wraps nothing further.
C28_WrapFunctionsInSubqueries ==
    (status = "running" /\ stack # <<>> /\ Top.pc = "begin") =>
        LET wrapped == WrapFunctionsInSubqueries(heap, Top.q)
        IN /\ WrapsExactlyTheFunctions(heap, Top.q, wrapped)
           /\ WrapsNothingFurther(heap, Top.q, wrapped)

\* SELECT ... FROM dist, g() planned: g() was wrapped, and a range table with a
\* LATERAL or WITH ORDINALITY function, or with one function alone, was not
C28_Witness ==
    /\ status = "running" /\ stack # <<>> /\ Top.pc = "walk" /\ Top.q = RootQuery
    /\ calls = 1
    /\ ~SubqueryPushdown
    /\ \E i \in 1..Len(heap0[RootQuery].rtable) :
           /\ FunctionToWrap(heap0, RootQuery, i)
           /\ WrappedInSubquery(heap0, RootQuery, i, heap)
    /\ \E i \in 1..Len(heap0[RootQuery].rtable) :
           /\ heap0[RootQuery].rtable[i].rtekind # "RTE_FUNCTION"
           /\ heap[RootQuery].rtable[i] = heap0[RootQuery].rtable[i]

\* entry i of query q of heap h is a subquery entry holding an outer subquery
\* whose one range table entry is a subquery that reads result
\* <planId>_<subPlanId>
HoldsOuterSubqueryOverFragment(h, q, i, planId, subPlanId) ==
    LET rangeTableEntry == h[q].rtable[i]
    IN /\ rangeTableEntry.rtekind = "RTE_SUBQUERY"
       /\ rangeTableEntry.subquery \in 1..Len(h)
       /\ LET outerSubquery == h[rangeTableEntry.subquery]
          IN /\ outerSubquery.commandType = "CMD_SELECT"
             /\ Len(outerSubquery.rtable) = 1
             /\ outerSubquery.rtable[1].rtekind = "RTE_SUBQUERY"
             /\ outerSubquery.rtable[1].subquery \in 1..Len(h)
             /\ IsResultQuery(h[outerSubquery.rtable[1].subquery])
             /\ IsResultIdOf(h[outerSubquery.rtable[1].subquery].rtable[1].resultId,
                             planId, subPlanId)

\* m2 is m after relation entry i of q was converted and planned
RelationReplacedAndPlanned(m, q, i, m2) ==
    LET subPlanId == Len(m.context.subPlanList) + 1
    IN /\ Len(m2.context.subPlanList) = subPlanId
       /\ SubSeq(m2.context.subPlanList, 1, subPlanId - 1) = m.context.subPlanList
       /\ m2.context.subPlanList[subPlanId].subPlanId = subPlanId
       /\ m2.context.subPlanList[subPlanId].plan.query \in (Len(m.heap) + 1)..Len(m2.heap)
       /\ \A n \in 1..Len(m.heap) : n # q => m2.heap[n] = m.heap[n]
       /\ m2.heap[q] = [m.heap[q] EXCEPT !.rtable = m2.heap[q].rtable]
       /\ Len(m2.heap[q].rtable) = Len(m.heap[q].rtable)
       /\ \A j \in 1..Len(m.heap[q].rtable) : j # i => m2.heap[q].rtable[j] = m.heap[q].rtable[j]
       /\ HoldsOuterSubqueryOverFragment(m2.heap, q, i, m.context.planId, subPlanId)

\* C29: ReplaceRTERelationWithRteSubquery on a relation entry raises an error,
\* or appends one subplan and leaves the entry, at the same index, as a
\* subquery entry holding an outer subquery whose one range table entry is
\* the subquery that reads the result of the new subplan.  Checked on every
\* relation of the query whose walk has just ended.
C29_ReplaceRTERelationWithRteSubquery ==
    AtAfterSubqueryWalk =>
        \A i \in 1..Len(heap[Top.q].rtable) :
            heap[Top.q].rtable[i].rtekind = "RTE_RELATION" =>
                LET replaced == ReplaceRTERelationWithRteSubquery(Now, Top.q, i)
                IN \/ replaced.err # "none" /\ replaced.raised
                   \/ RelationReplacedAndPlanned(Now, Top.q, i, replaced)

\* a local table joined with a distributed table was converted by the planner:
\* its entry holds the outer subquery over the fragment of the one subplan
C29_Witness ==
    /\ status = "running"
    /\ calls = 1
    /\ Len(Now.context.subPlanList) = 1
    /\ \E i \in 1..Len(heap0[RootQuery].rtable) :
           /\ heap0[RootQuery].rtable[i].rtekind = "RTE_RELATION"
           /\ HoldsOuterSubqueryOverFragment(heap, RootQuery, i, Now.context.planId, 1)

\* the range table entries that named a CTE in heap h and in heap h2 are
\* subqueries reading result <planId>_<subPlanId>
EntriesRewrittenToRead(h, h2, planId, subPlanId) ==
    {r \in [q : 1..Len(h), i : 1..4] :
        /\ r.i <= Len(h[r.q].rtable)
        /\ h[r.q].rtable[r.i].rtekind = "RTE_CTE"
        /\ h2[r.q].rtable[r.i].rtekind = "RTE_SUBQUERY"
        /\ IsResultQuery(h2[h2[r.q].rtable[r.i].subquery])
        /\ IsResultIdOf(h2[h2[r.q].rtable[r.i].subquery].rtable[1].resultId,
                        planId, subPlanId)}

\* m2 is m after RecursivelyPlanCTEs on q: every CTE of q that got a subplan
\* has as many entries rewritten to read it as its reference count
RewrittenAsManyAsReferenced(m, q, m2) ==
    \A j \in (Len(m.context.subPlanList) + 1)..Len(m2.context.subPlanList) :
        \A k \in 1..Len(m.heap[q].cteList) :
            m2.context.subPlanList[j].plan.query = m.heap[q].cteList[k].ctequery =>
                Cardinality(EntriesRewrittenToRead(m.heap, m2.heap, m.context.planId,
                                                   m2.context.subPlanList[j].subPlanId))
                    = m.heap[q].cteList[k].cterefcount

\* C30: for every CTE that is materialized the number of range table entries
\* rewritten to read its result is the reference count of the CTE, so
\* Assert(cte->cterefcount == replacedCtesCount) holds.  Checked on every
\* query the planner enters, where its CTEs are planned.
C30_CteReferencesAllRewritten ==
    (status = "running" /\ stack # <<>> /\ Top.pc = "begin") =>
        LET planned == RecursivelyPlanCTEs([Now EXCEPT !.assertsHold = TRUE], Top.q)
        IN /\ planned.assertsHold
           /\ RewrittenAsManyAsReferenced(Now, Top.q, planned)

\* WITH c1 AS (...), c2 AS (SELECT FROM c1) SELECT FROM dist, c1, c1, c2,
\* (SELECT FROM c1): four entries read c1, one of them in the body of c2 and
\* one in the nested subquery, and one entry reads c2
C30_Witness ==
    /\ status = "running" /\ stack # <<>> /\ Top.pc = "walk" /\ Top.q = RootQuery
    /\ calls = 1
    /\ Len(heap0[RootQuery].cteList) = 2
    /\ heap0[RootQuery].cteList[1].cterefcount = 4
    /\ Len(Now.context.subPlanList) = 2
    /\ Cardinality(EntriesRewrittenToRead(heap0, heap, Now.context.planId, 1)) = 4
    /\ Cardinality(EntriesRewrittenToRead(heap0, heap, Now.context.planId, 2)) = 1

====
